---------------------------- MODULE Spec2Model ----------------------------
(***************************************************************************)
(* A model of the JSON value core of sql/json_dom.cc: the DOM (Json_dom,   *)
(* Json_object, Json_array, merge_doms), the text-parser handler           *)
(* (Rapid_json_handler), and the partial update of binary documents        *)
(* (Json_wrapper::attempt_binary_update, Json_wrapper::binary_remove).     *)
(*                                                                         *)
(* The binary format itself (json_binary.cc) and the path legs             *)
(* (json_path.cc) are not part of the sources at hand; their operators     *)
(* below are written from the specification's description of the format.   *)
(***************************************************************************)
EXTENDS Integers, Sequences, FiniteSets, TLC

VARIABLES
  field_binary,   \* the bytes of the stored document, field->get_binary()
  result,         \* the bytes of String *result, <<>> while it is empty
  m_value,        \* the binary value of the Json_wrapper being updated
  ncalls,         \* the number of calls made on the wrapper
  last,           \* the arguments and out-parameters of the last call
  heap,           \* the Json_dom objects allocated so far, by address
  handler,        \* the fields of the Rapid_json_handler of a parse
  reader,         \* the reader that drives the handler over a JSON text
  dom_call        \* the arguments and the result of a call on DOMs

updVars == <<field_binary, result, m_value, ncalls, last>>

domVars == <<heap, handler, reader, dom_call>>

vars == <<updVars, domVars>>

(***************************************************************************)
(* Bounds of the model.                                                    *)
(***************************************************************************)
\* The number of partial updates and removes of one operation.
MaxCalls == 2

\* The number of calls of a sequence of calls on DOMs.
MaxOps == 3

\* The number of constructions, assignments and destructions of a sequence
\* on Json_wrappers.
MaxWrapperOps == 4

\* The rows a table holds at most, and the calls on a table.
MaxRows == 3

MaxTableOps == 3

(***************************************************************************)
(* Generic helpers.                                                        *)
(***************************************************************************)
Pow256(w) == IF w = 0 THEN 1 ELSE IF w = 1 THEN 256 ELSE IF w = 2 THEN 65536
             ELSE 16777216

Min(a, b) == IF a < b THEN a ELSE b

RECURSIVE Concat(_)
Concat(ss) == IF ss = <<>> THEN <<>> ELSE Head(ss) \o Concat(Tail(ss))

RECURSIVE SumLen(_)
SumLen(ss) == IF ss = <<>> THEN 0 ELSE Len(Head(ss)) + SumLen(Tail(ss))

\* The sequence s with the element at (1-based) position i removed.
RemoveAt(s, i) == [j \in 1..(Len(s) - 1) |-> IF j < i THEN s[j] ELSE s[j + 1]]

\* The sequence s with x inserted so that it becomes element i (1-based).
InsertAt(s, i, x) ==
  [j \in 1..(Len(s) + 1) |-> IF j < i THEN s[j] ELSE IF j = i THEN x ELSE s[j - 1]]

\* buf with the bytes bs written at the 0-based offset off (memcpy).
WriteAt(buf, off, bs) ==
  [j \in 1..Len(buf) |-> IF j > off /\ j <= off + Len(bs) THEN bs[j - off] ELSE buf[j]]

\* The n bytes of buf starting at the 0-based offset off.
Slice(buf, off, n) == [j \in 1..n |-> buf[off + j]]

(***************************************************************************)
(* JSON values as data.  A value is a record                               *)
(*   k    : the enum_json_type                                             *)
(*   v    : the scalar payload as a sequence of integers (<<n>> for an     *)
(*          INT, <<0>>/<<1>> for a BOOL, the bytes of a STRING)            *)
(*   keys : the keys of an OBJECT in Json_key_comparator order             *)
(*   kids : the elements of an ARRAY, or the values of an OBJECT parallel  *)
(*          to keys                                                        *)
(***************************************************************************)
JNull == [k |-> "J_NULL", v |-> <<>>, keys |-> <<>>, kids |-> <<>>]

JBool(b) == [k |-> "J_BOOLEAN", v |-> <<IF b THEN 1 ELSE 0>>, keys |-> <<>>, kids |-> <<>>]

JInt(n) == [k |-> "J_INT", v |-> <<n>>, keys |-> <<>>, kids |-> <<>>]

JString(s) == [k |-> "J_STRING", v |-> s, keys |-> <<>>, kids |-> <<>>]

JArray(elems) == [k |-> "J_ARRAY", v |-> <<>>, keys |-> <<>>, kids |-> elems]

JObject(ks, vals) == [k |-> "J_OBJECT", v |-> <<>>, keys |-> ks, kids |-> vals]

JError == [k |-> "J_ERROR", v |-> <<>>, keys |-> <<>>, kids |-> <<>>]

IsContainer(d) == d.k \in {"J_ARRAY", "J_OBJECT"}

\* memcmp(a, b, n) < 0 for two byte strings of the same length.
RECURSIVE MemLess(_, _)
MemLess(a, b) ==
  IF a = <<>> THEN FALSE
  ELSE IF Head(a) # Head(b) THEN Head(a) < Head(b)
  ELSE MemLess(Tail(a), Tail(b))

\* Json_key_comparator::operator(): shorter first, then byte order.
KeyLess(key1, key2) ==
  IF Len(key1) # Len(key2) THEN Len(key1) < Len(key2) ELSE MemLess(key1, key2)

(***************************************************************************)
(* The binary format (json_binary): type bytes and sizes.                  *)
(***************************************************************************)
JSONB_TYPE_SMALL_OBJECT == 0

JSONB_TYPE_LARGE_OBJECT == 1

JSONB_TYPE_SMALL_ARRAY == 2

JSONB_TYPE_LARGE_ARRAY == 3

JSONB_TYPE_LITERAL == 4

JSONB_TYPE_INT16 == 5

JSONB_TYPE_INT32 == 7

JSONB_TYPE_STRING == 12

JSONB_NULL_LITERAL == 0

JSONB_TRUE_LITERAL == 1

JSONB_FALSE_LITERAL == 2

\* Offsets and sizes take 2 bytes in the small format and 4 in the large one.
offset_size(large) == IF large THEN 4 ELSE 2

\* A key entry is the key's offset followed by its 2-byte length.
key_entry_size(large) == offset_size(large) + 2

\* A value entry is a type byte followed by an offset or an inlined value.
value_entry_size(large) == 1 + offset_size(large)

\* Little-endian encoding of n in w bytes, w <= 4; two's complement when
\* n < 0: the complement of the bytes of -n - 1.
LE(n, w) ==
  [i \in 1..w |-> IF n >= 0 THEN (n \div Pow256(i - 1)) % 256
                  ELSE 255 - (((-n - 1) \div Pow256(i - 1)) % 256)]

\* The unsigned w-byte little-endian integer at the 0-based offset pos.
RECURSIVE ReadLE(_, _, _)
ReadLE(buf, pos, w) ==
  IF w = 0 THEN 0 ELSE buf[pos + 1] + 256 * ReadLE(buf, pos + 1, w - 1)

\* The same bytes read as a signed integer (two's complement).
RECURSIVE ReadComplementLE(_, _, _)
ReadComplementLE(buf, pos, w) ==
  IF w = 0 THEN 0 ELSE (255 - buf[pos + 1]) + 256 * ReadComplementLE(buf, pos + 1, w - 1)

ReadSignedLE(buf, pos, w) ==
  IF buf[pos + w] >= 128 THEN -(ReadComplementLE(buf, pos, w) + 1)
  ELSE ReadLE(buf, pos, w)

\* The variable-length size prefix of strings: 7 bits per byte, the high
\* bit set on every byte but the last.
RECURSIVE VarLen(_)
VarLen(n) == IF n < 128 THEN <<n>> ELSE <<128 + (n % 128)>> \o VarLen(n \div 128)

\* read_variable_length: <<the value, the number of bytes it took>>.
RECURSIVE ReadVarLen(_, _)
ReadVarLen(buf, pos) ==
  IF buf[pos + 1] < 128 THEN <<buf[pos + 1], 1>>
  ELSE LET rest == ReadVarLen(buf, pos + 1)
       IN  <<(buf[pos + 1] - 128) + 128 * rest[1], rest[2] + 1>>

IsInt16(n) == n >= -32768 /\ n <= 32767

\* The type byte the serializer gives a value.
TypeByte(d, large) ==
  CASE d.k = "J_OBJECT" -> IF large THEN JSONB_TYPE_LARGE_OBJECT ELSE JSONB_TYPE_SMALL_OBJECT
    [] d.k = "J_ARRAY" -> IF large THEN JSONB_TYPE_LARGE_ARRAY ELSE JSONB_TYPE_SMALL_ARRAY
    [] d.k = "J_STRING" -> JSONB_TYPE_STRING
    [] d.k = "J_INT" -> IF IsInt16(d.v[1]) THEN JSONB_TYPE_INT16 ELSE JSONB_TYPE_INT32
    [] OTHER -> JSONB_TYPE_LITERAL

\* Whether a value of this type byte is stored in the value entry itself.
inlined_type(type, large) ==
  \/ type = JSONB_TYPE_LITERAL
  \/ type = JSONB_TYPE_INT16
  \/ (type = JSONB_TYPE_INT32 /\ large)

LiteralCode(d) ==
  IF d.k = "J_NULL" THEN JSONB_NULL_LITERAL
  ELSE IF d.v[1] = 1 THEN JSONB_TRUE_LITERAL ELSE JSONB_FALSE_LITERAL

\* The payload of a scalar: what follows its type byte when it is not inlined.
ScalarPayload(d) ==
  CASE d.k = "J_STRING" -> VarLen(Len(d.v)) \o d.v
    [] d.k = "J_INT" -> IF IsInt16(d.v[1]) THEN LE(d.v[1], 2) ELSE LE(d.v[1], 4)
    [] OTHER -> <<LiteralCode(d)>>

\* The offset field of the value entry of an inlined scalar.
InlineField(d, large) ==
  IF d.k = "J_INT" THEN LE(d.v[1], offset_size(large))
  ELSE LE(LiteralCode(d), offset_size(large))

\* The value entries of a container whose non-inlined values datas[i] are
\* laid out one after the other from the offset start.
RECURSIVE ValueEntries(_, _, _, _)
ValueEntries(kids, datas, start, large) ==
  IF kids = <<>> THEN <<>>
  ELSE LET t == TypeByte(Head(kids), large)
       IN  IF inlined_type(t, large)
           THEN <<t>> \o InlineField(Head(kids), large)
                \o ValueEntries(Tail(kids), Tail(datas), start, large)
           ELSE <<t>> \o LE(start, offset_size(large))
                \o ValueEntries(Tail(kids), Tail(datas),
                                start + Len(Head(datas)), large)

\* The key entries of an object whose keys are laid out from the offset start.
RECURSIVE KeyEntries(_, _, _)
KeyEntries(ks, start, large) ==
  IF ks = <<>> THEN <<>>
  ELSE LE(start, offset_size(large)) \o LE(Len(Head(ks)), 2)
       \o KeyEntries(Tail(ks), start + Len(Head(ks)), large)

\* serialize_json_value without the type byte: the bytes of a value as they
\* are stored at its offset.  Documents of the model are far below 64KB, so
\* the serializer always finds the small format sufficient.
RECURSIVE SerData(_, _)
SerData(d, large) ==
  IF ~IsContainer(d) THEN ScalarPayload(d)
  ELSE
    LET n == Len(d.kids)
        osz == offset_size(large)
        datas == [i \in 1..n |->
                    IF inlined_type(TypeByte(d.kids[i], large), large) THEN <<>>
                    ELSE SerData(d.kids[i], large)]
        header == 2 * osz + n * value_entry_size(large)
                  + (IF d.k = "J_OBJECT" THEN n * key_entry_size(large) ELSE 0)
        keybytes == IF d.k = "J_OBJECT" THEN Concat(d.keys) ELSE <<>>
        first == header + Len(keybytes)
        size == first + SumLen(datas)
    IN  LE(n, osz) \o LE(size, osz)
        \o (IF d.k = "J_OBJECT" THEN KeyEntries(d.keys, header, large) ELSE <<>>)
        \o ValueEntries(d.kids, datas, first, large)
        \o keybytes \o Concat(datas)

\* json_binary::serialize: a whole document, type byte first.
serialize(d) == <<TypeByte(d, FALSE)>> \o SerData(d, FALSE)

(***************************************************************************)
(* The reader of the binary format (json_binary::Value).  A Value borrows  *)
(* from a buffer: buf names the buffer and data is the 0-based offset of   *)
(* the value's bytes in it (the pointer m_data).  mem maps buffer names to *)
(* their bytes.                                                            *)
(***************************************************************************)
BinValue(type, buf, data, length, count, large, int) ==
  [type |-> type, buf |-> buf, data |-> data, length |-> length,
   element_count |-> count, large |-> large, int_value |-> int]

ErrorValue == BinValue("ERROR", "none", 0, 0, 0, FALSE, 0)

\* parse_scalar / parse_array_or_object: the value of the given type byte
\* whose bytes are the len bytes at offset off of buffer buf.
parse_value(mem, buf, type, off, len) ==
  LET b == mem[buf]
      large == type \in {JSONB_TYPE_LARGE_OBJECT, JSONB_TYPE_LARGE_ARRAY}
      osz == offset_size(large)
  IN  CASE type \in {JSONB_TYPE_SMALL_OBJECT, JSONB_TYPE_LARGE_OBJECT,
                     JSONB_TYPE_SMALL_ARRAY, JSONB_TYPE_LARGE_ARRAY} ->
             IF len < 2 * osz THEN ErrorValue
             ELSE LET count == ReadLE(b, off, osz)
                      bytes == ReadLE(b, off + osz, osz)
                      isobj == type \in {JSONB_TYPE_SMALL_OBJECT, JSONB_TYPE_LARGE_OBJECT}
                      header == 2 * osz + count * value_entry_size(large)
                                + (IF isobj THEN count * key_entry_size(large) ELSE 0)
                  IN  IF bytes > len \/ header > bytes THEN ErrorValue
                      ELSE BinValue(IF isobj THEN "OBJECT" ELSE "ARRAY",
                                    buf, off, bytes, count, large, 0)
        [] type = JSONB_TYPE_LITERAL ->
             IF len < 1 THEN ErrorValue
             ELSE IF b[off + 1] = JSONB_NULL_LITERAL
                    THEN BinValue("LITERAL_NULL", buf, off, 0, 0, FALSE, 0)
             ELSE IF b[off + 1] = JSONB_TRUE_LITERAL
                    THEN BinValue("LITERAL_TRUE", buf, off, 0, 0, FALSE, 0)
             ELSE IF b[off + 1] = JSONB_FALSE_LITERAL
                    THEN BinValue("LITERAL_FALSE", buf, off, 0, 0, FALSE, 0)
             ELSE ErrorValue
        [] type = JSONB_TYPE_INT16 ->
             IF len < 2 THEN ErrorValue
             ELSE BinValue("INT", buf, off, 0, 0, FALSE, ReadSignedLE(b, off, 2))
        [] type = JSONB_TYPE_INT32 ->
             IF len < 4 THEN ErrorValue
             ELSE BinValue("INT", buf, off, 0, 0, FALSE, ReadSignedLE(b, off, 4))
        [] type = JSONB_TYPE_STRING ->
             IF len < 1 THEN ErrorValue
             ELSE LET vl == ReadVarLen(b, off)
                  IN  IF len < vl[2] + vl[1] THEN ErrorValue
                      ELSE BinValue("STRING", buf, off + vl[2], vl[1], 0, FALSE, 0)
        [] OTHER -> ErrorValue

\* json_binary::parse_binary(data, len): the document in the first len
\* bytes of buffer buf.
parse_binary(mem, buf, len) ==
  IF len = 0 THEN ErrorValue
  ELSE parse_value(mem, buf, mem[buf][1], 1, len - 1)

\* Value::key_entry_offset / Value::value_entry_offset, relative to m_data.
key_entry_offset(val, pos) ==
  2 * offset_size(val.large) + key_entry_size(val.large) * pos

value_entry_offset(val, pos) ==
  2 * offset_size(val.large)
  + (IF val.type = "OBJECT" THEN val.element_count * key_entry_size(val.large) ELSE 0)
  + value_entry_size(val.large) * pos

\* Value::element(pos).
element(mem, val, pos) ==
  IF pos >= val.element_count THEN ErrorValue
  ELSE LET b == mem[val.buf]
           entry == val.data + value_entry_offset(val, pos)
           type == b[entry + 1]
       IN  IF inlined_type(type, val.large)
           THEN parse_value(mem, val.buf, type, entry + 1, offset_size(val.large))
           ELSE LET value_offset == ReadLE(b, entry + 1, offset_size(val.large))
                IN  IF val.length < value_offset
                       \/ value_offset < value_entry_offset(val, pos) + value_entry_size(val.large)
                    THEN ErrorValue
                    ELSE parse_value(mem, val.buf, type, val.data + value_offset,
                                     val.length - value_offset)

\* Value::key(pos): the key as a STRING value.
key(mem, val, pos) ==
  IF pos >= val.element_count THEN ErrorValue
  ELSE LET b == mem[val.buf]
           entry == val.data + key_entry_offset(val, pos)
           key_offset == ReadLE(b, entry, offset_size(val.large))
           key_length == ReadLE(b, entry + offset_size(val.large), 2)
       IN  IF val.length < key_offset + key_length THEN ErrorValue
           ELSE BinValue("STRING", val.buf, val.data + key_offset, key_length, 0, FALSE, 0)

\* Value::get_data() with get_data_length(): the bytes of a STRING value.
get_data(mem, val) == Slice(mem[val.buf], val.data, val.length)

\* Value::lookup_index(key): binary search of the sorted key table; the
\* element count when the key is absent.
RECURSIVE lookup_search(_, _, _, _, _)
lookup_search(mem, val, name, lo, hi) ==
  IF lo >= hi THEN val.element_count
  ELSE LET mid == (lo + hi) \div 2
           kmid == get_data(mem, key(mem, val, mid))
       IN  IF kmid = name THEN mid
           ELSE IF KeyLess(kmid, name) THEN lookup_search(mem, val, name, mid + 1, hi)
           ELSE lookup_search(mem, val, name, lo, mid)

lookup_index(mem, val, name) == lookup_search(mem, val, name, 0, val.element_count)

\* Value::lookup(key): the member, or an ERROR value.
lookup(mem, val, name) ==
  LET i == lookup_index(mem, val, name)
  IN  IF i = val.element_count THEN ErrorValue ELSE element(mem, val, i)

\* Value::raw_binary: the bytes of a document, type byte first.  The
\* wrapper's m_value is a whole document, whose bytes start one byte
\* before its data.
raw_binary(mem, val) ==
  CASE val.type \in {"OBJECT", "ARRAY"} ->
         Slice(mem[val.buf], val.data - 1, val.length + 1)
    [] val.type = "STRING" ->
         <<JSONB_TYPE_STRING>> \o VarLen(val.length) \o get_data(mem, val)
    [] val.type = "INT" ->
         IF IsInt16(val.int_value) THEN <<JSONB_TYPE_INT16>> \o LE(val.int_value, 2)
         ELSE <<JSONB_TYPE_INT32>> \o LE(val.int_value, 4)
    [] val.type = "LITERAL_NULL" -> <<JSONB_TYPE_LITERAL, JSONB_NULL_LITERAL>>
    [] val.type = "LITERAL_TRUE" -> <<JSONB_TYPE_LITERAL, JSONB_TRUE_LITERAL>>
    [] val.type = "LITERAL_FALSE" -> <<JSONB_TYPE_LITERAL, JSONB_FALSE_LITERAL>>
    [] OTHER -> <<>>

(***************************************************************************)
(* Path legs (Json_path_leg).  A leg is a record: type is its              *)
(* enum_json_path_leg_type, name the member name of a jpl_member leg,      *)
(* index and from_end the cell of a jpl_array_cell leg ($[index] or        *)
(* $[last-index]).                                                         *)
(***************************************************************************)
MemberLeg(name) == [type |-> "jpl_member", name |-> name, index |-> 0, from_end |-> FALSE]

CellLeg(index, from_end) ==
  [type |-> "jpl_array_cell", name |-> <<>>, index |-> index, from_end |-> from_end]

MemberWildcardLeg ==
  [type |-> "jpl_member_wildcard", name |-> <<>>, index |-> 0, from_end |-> FALSE]

CellWildcardLeg ==
  [type |-> "jpl_array_cell_wildcard", name |-> <<>>, index |-> 0, from_end |-> FALSE]

EllipsisLeg == [type |-> "jpl_ellipsis", name |-> <<>>, index |-> 0, from_end |-> FALSE]

\* Json_path_leg::first_array_index(array_length): a Json_array_index, with
\* its position() and within_bounds().
first_array_index(leg, array_length) ==
  [position |-> IF leg.from_end
                THEN (IF leg.index < array_length THEN array_length - leg.index - 1 ELSE 0)
                ELSE Min(leg.index, array_length),
   within_bounds |-> leg.index < array_length]

\* Json_path_leg::get_array_range(array_length) of a cell wildcard:
\* every cell of the array.
get_array_range(leg, array_length) == [m_begin |-> 0, m_end |-> array_length]

\* Json_path_leg::is_autowrap(): a cell leg that matches the only cell of a
\* one-element array ($[0], $[last]), or a cell wildcard.
is_autowrap(leg) ==
  CASE leg.type = "jpl_array_cell" -> first_array_index(leg, 1).within_bounds
    [] leg.type = "jpl_array_cell_wildcard" -> TRUE
    [] OTHER -> FALSE

(***************************************************************************)
(* Json_wrapper over a binary value.                                       *)
(***************************************************************************)
\* bjson2json, as used by Json_wrapper::type() for a binary value.
bjson2json(bintype) ==
  CASE bintype = "STRING" -> "J_STRING"
    [] bintype = "INT" -> "J_INT"
    [] bintype \in {"LITERAL_TRUE", "LITERAL_FALSE"} -> "J_BOOLEAN"
    [] bintype = "LITERAL_NULL" -> "J_NULL"
    [] bintype = "ARRAY" -> "J_ARRAY"
    [] bintype = "OBJECT" -> "J_OBJECT"
    [] OTHER -> "J_ERROR"

\* Json_wrapper::length() of a binary value.
wrapper_length(val) ==
  IF val.type \in {"ARRAY", "OBJECT"} THEN val.element_count ELSE 1

\* is_seek_done(hits, only_need_one).
is_seek_done(hits, only_need_one) == only_need_one /\ Len(hits) > 0

\* Json_wrapper::seek_no_ellipsis on a binary wrapper: the hits vector
\* after the call.  seek_cells is the loop over the cells of an array (or
\* the members of an object) of the wildcard legs.
RECURSIVE seek_no_ellipsis(_, _, _, _, _, _, _, _)
RECURSIVE seek_cells(_, _, _, _, _, _, _, _, _, _)
seek_no_ellipsis(mem, val, path, hits, current_leg, last_leg, auto_wrap, only_need_one) ==
  IF current_leg >= last_leg THEN Append(hits, val)
  ELSE
    LET path_leg == path[current_leg + 1]
        jtype == bjson2json(val.type)
    IN  IF auto_wrap /\ jtype # "J_ARRAY" /\ is_autowrap(path_leg)
        THEN seek_no_ellipsis(mem, val, path, hits, current_leg + 1, last_leg,
                              auto_wrap, only_need_one)
        ELSE
          CASE path_leg.type = "jpl_member" ->
                 IF jtype = "J_OBJECT"
                 THEN LET member == lookup(mem, val, path_leg.name)
                      IN  IF bjson2json(member.type) # "J_ERROR"
                          THEN seek_no_ellipsis(mem, member, path, hits, current_leg + 1,
                                                last_leg, auto_wrap, only_need_one)
                          ELSE hits
                 ELSE hits
            [] path_leg.type = "jpl_member_wildcard" ->
                 IF jtype = "J_OBJECT"
                 THEN seek_cells(mem, val, path, hits, current_leg, last_leg, auto_wrap,
                                 only_need_one, 0, val.element_count)
                 ELSE hits
            [] path_leg.type = "jpl_array_cell" ->
                 IF jtype = "J_ARRAY"
                 THEN LET idx == first_array_index(path_leg, wrapper_length(val))
                      IN  IF idx.within_bounds
                          THEN seek_no_ellipsis(mem, element(mem, val, idx.position), path,
                                                hits, current_leg + 1, last_leg,
                                                auto_wrap, only_need_one)
                          ELSE hits
                 ELSE hits
            [] path_leg.type \in {"jpl_array_range", "jpl_array_cell_wildcard"} ->
                 IF jtype = "J_ARRAY"
                 THEN LET range == get_array_range(path_leg, wrapper_length(val))
                      IN  seek_cells(mem, val, path, hits, current_leg, last_leg,
                                     auto_wrap, only_need_one, range.m_begin, range.m_end)
                 ELSE hits
            [] OTHER -> hits

seek_cells(mem, val, path, hits, current_leg, last_leg, auto_wrap, only_need_one, idx, end) ==
  IF idx >= end \/ is_seek_done(hits, only_need_one) THEN hits
  ELSE seek_cells(mem, val, path,
                  seek_no_ellipsis(mem, element(mem, val, idx), path, hits,
                                   current_leg + 1, last_leg, auto_wrap, only_need_one),
                  current_leg, last_leg, auto_wrap, only_need_one, idx + 1, end)

(***************************************************************************)
(* The DOM as data: Json_object's map, conversion from binary, and seek.   *)
(* A node of a DOM tree is identified by its location: the sequence of     *)
(* 1-based child positions leading to it from the root.                    *)
(***************************************************************************)
\* The 1-based position of key in the sorted keys, or 0.
KeyPos(keys, name) ==
  IF \E i \in 1..Len(keys) : keys[i] = name
  THEN CHOOSE i \in 1..Len(keys) : keys[i] = name
  ELSE 0

\* Where std::map::insert puts a new key: after every smaller key.
InsertPos(keys, name) == 1 + Cardinality({i \in 1..Len(keys) : KeyLess(keys[i], name)})

\* Json_object::add_alias on an object value: m_map.insert adds the pair
\* unless the key is there already, in which case the object is unchanged.
ObjAddAlias(obj, name, value) ==
  IF KeyPos(obj.keys, name) # 0 THEN obj
  ELSE LET p == InsertPos(obj.keys, name)
       IN  JObject(InsertAt(obj.keys, p, name), InsertAt(obj.kids, p, value))

\* Json_dom::parse(thd, v): json_binary_to_dom_template and
\* populate_object_or_array.  populate_object adds the members one by one.
RECURSIVE BinToDom(_, _)
RECURSIVE populate_object(_, _, _, _)
BinToDom(mem, val) ==
  CASE val.type = "OBJECT" -> populate_object(mem, JObject(<<>>, <<>>), val, 0)
    [] val.type = "ARRAY" ->
         JArray([i \in 1..val.element_count |-> BinToDom(mem, element(mem, val, i - 1))])
    [] val.type = "INT" -> JInt(val.int_value)
    [] val.type = "LITERAL_FALSE" -> JBool(FALSE)
    [] val.type = "LITERAL_TRUE" -> JBool(TRUE)
    [] val.type = "LITERAL_NULL" -> JNull
    [] val.type = "STRING" -> JString(get_data(mem, val))
    [] OTHER -> JError

populate_object(mem, jo, val, i) ==
  IF i >= val.element_count THEN jo
  ELSE populate_object(mem,
                       ObjAddAlias(jo, get_data(mem, key(mem, val, i)),
                                   BinToDom(mem, element(mem, val, i))),
                       val, i + 1)

\* The node at a location.
RECURSIVE NodeAt(_, _)
NodeAt(dom, loc) == IF loc = <<>> THEN dom ELSE NodeAt(dom.kids[Head(loc)], Tail(loc))

\* The tree with the node at a location replaced.
RECURSIVE ReplaceAt(_, _, _)
ReplaceAt(dom, loc, new) ==
  IF loc = <<>> THEN new
  ELSE [dom EXCEPT !.kids[Head(loc)] = ReplaceAt(dom.kids[Head(loc)], Tail(loc), new)]

\* seen_already(result, cand).
seen_already(res, cand) == \E i \in 1..Len(res) : res[i] = cand

\* A candidate added whether or not it is among the duplicates.
add_unchecked(cand, st) == <<st[1] \cup {cand}, Append(st[2], cand)>>

\* add_if_missing(candidate, duplicates, result): st is the pair
\* <<duplicates, result>>.
add_if_missing(cand, st) ==
  IF cand \notin st[1] THEN <<st[1] \cup {cand}, Append(st[2], cand)>> ELSE st

\* Json_dom::find_child_doms on the node at location loc of root.
RECURSIVE find_child_doms(_, _, _, _, _, _)
RECURSIVE find_range(_, _, _, _, _, _)
RECURSIVE find_ellipsis(_, _, _, _, _, _, _)
find_child_doms(root, loc, path_leg, auto_wrap, only_need_one, st) ==
  LET this == NodeAt(root, loc)
      dom_type == this.k
      leg_type == path_leg.type
  IN  IF is_seek_done(st[2], only_need_one) THEN st
      ELSE IF auto_wrap /\ dom_type # "J_ARRAY" /\ is_autowrap(path_leg)
      THEN IF ~seen_already(st[2], loc) THEN add_if_missing(loc, st) ELSE st
      ELSE
        CASE leg_type = "jpl_array_cell" ->
               IF dom_type = "J_ARRAY"
               THEN LET idx == first_array_index(path_leg, Len(this.kids))
                    IN  IF idx.within_bounds
                        THEN add_if_missing(Append(loc, idx.position + 1), st)
                        ELSE st
               ELSE st
          [] leg_type \in {"jpl_array_range", "jpl_array_cell_wildcard"} ->
               IF dom_type = "J_ARRAY"
               THEN LET range == get_array_range(path_leg, Len(this.kids))
                    IN  find_range(loc, only_need_one, st, range.m_begin, range.m_end, 0)
               ELSE st
          [] leg_type = "jpl_ellipsis" ->
               LET st1 == add_if_missing(loc, st)
               IN  IF IsContainer(this)
                   THEN find_ellipsis(root, loc, path_leg, auto_wrap, only_need_one, st1, 0)
                   ELSE st1
          [] leg_type = "jpl_member" ->
               IF dom_type = "J_OBJECT" /\ KeyPos(this.keys, path_leg.name) # 0
               THEN add_if_missing(Append(loc, KeyPos(this.keys, path_leg.name)), st)
               ELSE st
          [] leg_type = "jpl_member_wildcard" ->
               IF dom_type = "J_OBJECT"
               THEN find_range(loc, only_need_one, st, 0, Len(this.kids), 0)
               ELSE st
          [] OTHER -> st

\* The loops of the wildcard legs: add child i, stop once the seek is done.
find_range(loc, only_need_one, st, i, end, dummy) ==
  IF i >= end THEN st
  ELSE LET st1 == add_if_missing(Append(loc, i + 1), st)
       IN  IF is_seek_done(st1[2], only_need_one) THEN st1
           ELSE find_range(loc, only_need_one, st1, i + 1, end, dummy)

\* The loop of the ellipsis leg over the children of an array or object:
\* add the child, then recurse into it when it is a container.
find_ellipsis(root, loc, path_leg, auto_wrap, only_need_one, st, eidx) ==
  LET this == NodeAt(root, loc)
  IN  IF eidx >= Len(this.kids) THEN st
      ELSE LET child == Append(loc, eidx + 1)
               st1 == add_if_missing(child, st)
           IN  IF is_seek_done(st1[2], only_need_one) THEN st1
               ELSE find_ellipsis(root, loc, path_leg, auto_wrap, only_need_one,
                                  IF IsContainer(NodeAt(root, child))
                                  THEN find_child_doms(root, child, path_leg, auto_wrap,
                                                       only_need_one, st1)
                                  ELSE st1,
                                  eidx + 1)

\* Json_dom::seek: the hits (locations) of path in the tree root.  Each leg
\* maps the hits of the previous one through find_child_doms.
RECURSIVE seek_hits(_, _, _, _, _, _, _)
seek_hits(root, path_leg, auto_wrap, only_need_one, hits, i, st) ==
  IF i > Len(hits) THEN st[2]
  ELSE seek_hits(root, path_leg, auto_wrap, only_need_one, hits, i + 1,
                 find_child_doms(root, hits[i], path_leg, auto_wrap, only_need_one, st))

RECURSIVE seek_legs(_, _, _, _, _, _)
seek_legs(root, path, auto_wrap, only_need_one, path_idx, hits) ==
  IF path_idx >= Len(path) THEN hits
  ELSE seek_legs(root, path, auto_wrap, only_need_one, path_idx + 1,
                 seek_hits(root, path[path_idx + 1], auto_wrap,
                           only_need_one /\ (path_idx = Len(path) - 1),
                           hits, 1, <<{}, <<>>>>))

Json_dom_seek(root, path, auto_wrap, only_need_one) ==
  seek_legs(root, path, auto_wrap, only_need_one, 0, <<(<<>>)>>)

(***************************************************************************)
(* Partial update of a binary container (json_binary::Value::has_space,    *)
(* update_in_shadow, remove_in_shadow and json_binary::space_needed).      *)
(***************************************************************************)
\* Whether the value entry at pos holds its value inline.
entry_inlined(mem, val, pos) ==
  inlined_type(mem[val.buf][val.data + value_entry_offset(val, pos) + 1], val.large)

\* The offset, relative to the container, stored in the value entry at pos.
entry_offset(mem, val, pos) ==
  ReadLE(mem[val.buf], val.data + value_entry_offset(val, pos) + 1, offset_size(val.large))

\* The number of bytes the non-inlined value at pos occupies at its offset.
stored_size(mem, val, pos) ==
  LET b == mem[val.buf]
      type == b[val.data + value_entry_offset(val, pos) + 1]
      at == val.data + entry_offset(mem, val, pos)
  IN  CASE type = JSONB_TYPE_STRING -> ReadVarLen(b, at)[2] + ReadVarLen(b, at)[1]
        [] type = JSONB_TYPE_INT32 -> 4
        [] type \in {JSONB_TYPE_SMALL_OBJECT, JSONB_TYPE_SMALL_ARRAY} -> ReadLE(b, at + 2, 2)
        [] type \in {JSONB_TYPE_LARGE_OBJECT, JSONB_TYPE_LARGE_ARRAY} -> ReadLE(b, at + 4, 4)
        [] OTHER -> 0

\* The lowest offset at which a value can be stored: after the last key of
\* an object, after the value entries of an array.
first_value_offset(mem, val) ==
  IF val.type = "OBJECT" /\ val.element_count > 0
  THEN LET last_key == key(mem, val, val.element_count - 1)
       IN  (last_key.data - val.data) + last_key.length
  ELSE value_entry_offset(val, val.element_count)

\* The end of the nearest non-inlined value before pos, or the lowest
\* value offset when there is none.
RECURSIVE previous_end(_, _, _)
previous_end(mem, val, pos) ==
  IF pos = 0 THEN first_value_offset(mem, val)
  ELSE IF ~entry_inlined(mem, val, pos - 1)
       THEN entry_offset(mem, val, pos - 1) + stored_size(mem, val, pos - 1)
       ELSE previous_end(mem, val, pos - 1)

\* The start of the nearest non-inlined value after pos, or the end of the
\* container when there is none.
RECURSIVE next_start(_, _, _)
next_start(mem, val, pos) ==
  IF pos + 1 >= val.element_count THEN val.length
  ELSE IF ~entry_inlined(mem, val, pos + 1) THEN entry_offset(mem, val, pos + 1)
       ELSE next_start(mem, val, pos + 1)

\* Value::has_space(pos, needed, &offset): whether needed bytes are free at
\* or after the current payload of the value at pos (after the previous
\* value when the value at pos is inlined); offset is where they start.
has_space(mem, val, pos, needed) ==
  LET start == IF entry_inlined(mem, val, pos) THEN previous_end(mem, val, pos)
               ELSE entry_offset(mem, val, pos)
  IN  [ok |-> start + needed <= next_start(mem, val, pos), offset |-> start]

\* json_binary::space_needed(thd, value, large, &needed): the bytes the
\* value takes outside its value entry; 0 when it is inlined.
space_needed(new_value, large) ==
  IF inlined_type(TypeByte(new_value, large), large) THEN 0
  ELSE Len(SerData(new_value, large))

\* Value::update_in_shadow(field, pos, new_value, data_offset, data_length,
\* original, destination): mem after the value entry at pos and, for a
\* value that is not inlined, its payload have been written to the buffer
\* destination.  The container's bytes are at the same offsets in original
\* and destination.
update_in_shadow(mem, val, pos, new_value, data_offset, needed, original, destination) ==
  LET entry == val.data + value_entry_offset(val, pos)
      type == TypeByte(new_value, val.large)
      d0 == mem[destination]
  IN  IF needed = 0
      THEN [mem EXCEPT ![destination] =
              WriteAt(d0, entry, <<type>> \o InlineField(new_value, val.large))]
      ELSE [mem EXCEPT ![destination] =
              WriteAt(WriteAt(d0, val.data + data_offset, SerData(new_value, val.large)),
                      entry, <<type>> \o LE(data_offset, offset_size(val.large)))]

\* Value::remove_in_shadow(field, pos, original, destination): mem after
\* the key entry (of an object) and the value entry at pos have been
\* removed by moving the entries after them down, and the header has been
\* rewritten with the element count decreased by one.  Keys and values stay
\* where they are, so the size in the header is the size it was.
remove_in_shadow(mem, val, pos, original, destination) ==
  LET osz == offset_size(val.large)
      ksz == key_entry_size(val.large)
      value_entry == value_entry_offset(val, pos)
      next_value_entry == value_entry_offset(val, pos + 1)
      value_entry_end == value_entry_offset(val, val.element_count)
      mem1 == IF val.type = "OBJECT"
              THEN LET key_entry == key_entry_offset(val, pos)
                       next_key_entry == key_entry_offset(val, pos + 1)
                   IN  [mem EXCEPT ![destination] =
                          WriteAt(mem[destination], val.data + key_entry,
                                  Slice(mem[original], val.data + next_key_entry,
                                        value_entry - next_key_entry))]
              ELSE mem
      value_entry_dest == IF val.type = "OBJECT" THEN value_entry - ksz ELSE value_entry
      mem2 == [mem1 EXCEPT ![destination] =
                 WriteAt(mem1[destination], val.data + value_entry_dest,
                         Slice(mem1[original], val.data + next_value_entry,
                               value_entry_end - next_value_entry))]
  IN  [mem2 EXCEPT ![destination] =
         WriteAt(mem2[destination], val.data,
                 LE(val.element_count - 1, osz) \o LE(val.length, osz))]

(***************************************************************************)
(* Json_wrapper::attempt_binary_update and Json_wrapper::binary_remove.    *)
(* mem holds the two buffers of a partial update: "field", the stored      *)
(* document (field->get_binary()), and "result", the String *result the    *)
(* calls of one operation share.  The operators return the out-parameters  *)
(* together with the buffers and the wrapper's m_value after the call;     *)
(* original and destination name the buffers handed to the shadow write    *)
(* ("none" when the call returns before it).                               *)
(***************************************************************************)
UpdateReturn(pu, rp, mem, this, original, destination) ==
  [partially_updated |-> pu, replaced_path |-> rp, mem |-> mem, m_value |-> this,
   original |-> original, destination |-> destination]

\* shadow_update that appends the new value to the result buffer instead
\* of writing it into the space the parent has.
shadow_update_appending(mem, this, parent, element_pos, new_value, data_offset, needed) ==
  LET empty == mem["result"] = <<>>
      seeded == IF empty THEN raw_binary(mem, this) ELSE mem["result"]
      mem1 == [mem EXCEPT !["result"] = seeded \o [j \in 1..needed |-> 0]]
      original == IF empty THEN "field" ELSE "result"
      mem2 == update_in_shadow(mem1, parent, element_pos, new_value,
                               IF needed > 0 THEN Len(seeded) - parent.data ELSE 0,
                               needed, original, "result")
  IN  UpdateReturn(TRUE, TRUE, mem2,
                   parse_binary(mem2, "result", Len(mem2["result"])),
                   original, "result")

\* shadow_update that leaves m_value reading the buffer it read before.
shadow_update_stale_wrapper(mem, this, parent, element_pos, new_value, data_offset, needed) ==
  LET empty == mem["result"] = <<>>
      mem1 == IF empty THEN [mem EXCEPT !["result"] = raw_binary(mem, this)] ELSE mem
      original == IF empty THEN "field" ELSE "result"
      mem2 == update_in_shadow(mem1, parent, element_pos, new_value, data_offset,
                               needed, original, "result")
  IN  UpdateReturn(TRUE, TRUE, mem2, this, original, "result")

\* shadow_update that writes into the buffer it reads the original from.
shadow_update_in_place(mem, this, parent, element_pos, new_value, data_offset, needed) ==
  LET empty == mem["result"] = <<>>
      mem1 == IF empty THEN [mem EXCEPT !["result"] = raw_binary(mem, this)] ELSE mem
      original == IF empty THEN "field" ELSE "result"
      mem2 == update_in_shadow(mem1, parent, element_pos, new_value, data_offset,
                               needed, original, original)
  IN  UpdateReturn(TRUE, TRUE, mem2,
                   parse_binary(mem2, "result", Len(mem2["result"])),
                   original, original)

\* The tail of attempt_binary_update, from the choice of the original
\* buffer to the shadow write, for the element at element_pos of parent.
shadow_update(mem, this, parent, element_pos, new_value, data_offset, needed) ==
  LET empty == mem["result"] = <<>>
      mem1 == IF empty THEN [mem EXCEPT !["result"] = raw_binary(mem, this)] ELSE mem
      original == IF empty THEN "field" ELSE "result"
      destination == "result"
      mem2 == update_in_shadow(mem1, parent, element_pos, new_value, data_offset,
                               needed, original, destination)
  IN  UpdateReturn(TRUE, TRUE, mem2,
                   parse_binary(mem2, "result", Len(mem2["result"])),
                   original, destination)

\* update_element_pos that treats every leg into a scalar parent alike.
update_element_pos_scalar_declines(mem, parent, last_leg, replace) ==
  CASE parent.type = "OBJECT" ->
         IF last_leg.type # "jpl_member"
         THEN [found |-> FALSE, pu |-> replace, pos |-> 0]
         ELSE LET element_pos == lookup_index(mem, parent, last_leg.name)
              IN  IF element_pos = parent.element_count
                  THEN [found |-> FALSE, pu |-> replace, pos |-> 0]
                  ELSE [found |-> TRUE, pu |-> TRUE, pos |-> element_pos]
    [] parent.type = "ARRAY" ->
         IF last_leg.type # "jpl_array_cell"
         THEN [found |-> FALSE, pu |-> TRUE, pos |-> 0]
         ELSE LET idx == first_array_index(last_leg, parent.element_count)
              IN  IF ~idx.within_bounds
                  THEN [found |-> FALSE, pu |-> replace, pos |-> 0]
                  ELSE [found |-> TRUE, pu |-> TRUE, pos |-> idx.position]
    [] OTHER -> [found |-> FALSE, pu |-> replace, pos |-> 0]

\* update_element_pos that reports an absent member or cell as done.
update_element_pos_absent_done(mem, parent, last_leg, replace) ==
  CASE parent.type = "OBJECT" ->
         IF last_leg.type # "jpl_member"
         THEN [found |-> FALSE, pu |-> replace, pos |-> 0]
         ELSE LET element_pos == lookup_index(mem, parent, last_leg.name)
              IN  IF element_pos = parent.element_count
                  THEN [found |-> FALSE, pu |-> TRUE, pos |-> 0]
                  ELSE [found |-> TRUE, pu |-> TRUE, pos |-> element_pos]
    [] parent.type = "ARRAY" ->
         IF last_leg.type # "jpl_array_cell"
         THEN [found |-> FALSE, pu |-> TRUE, pos |-> 0]
         ELSE LET idx == first_array_index(last_leg, parent.element_count)
              IN  IF ~idx.within_bounds
                  THEN [found |-> FALSE, pu |-> TRUE, pos |-> 0]
                  ELSE [found |-> TRUE, pu |-> TRUE, pos |-> idx.position]
    [] OTHER ->
         [found |-> FALSE, pu |-> replace \/ (last_leg.type # "jpl_array_cell"),
          pos |-> 0]

\* The switch on parent.type() of attempt_binary_update: found tells
\* whether it leaves with an element position (pos); pu is the value it
\* gives *partially_updated when it returns instead.
update_element_pos(mem, parent, last_leg, replace) ==
  CASE parent.type = "OBJECT" ->
         IF last_leg.type # "jpl_member"
         THEN [found |-> FALSE, pu |-> replace, pos |-> 0]
         ELSE LET element_pos == lookup_index(mem, parent, last_leg.name)
              IN  IF element_pos = parent.element_count
                  THEN [found |-> FALSE, pu |-> replace, pos |-> 0]
                  ELSE [found |-> TRUE, pu |-> TRUE, pos |-> element_pos]
    [] parent.type = "ARRAY" ->
         IF last_leg.type # "jpl_array_cell"
         THEN [found |-> FALSE, pu |-> TRUE, pos |-> 0]
         ELSE LET idx == first_array_index(last_leg, parent.element_count)
              IN  IF ~idx.within_bounds
                  THEN [found |-> FALSE, pu |-> replace, pos |-> 0]
                  ELSE [found |-> TRUE, pu |-> TRUE, pos |-> idx.position]
    [] OTHER ->
         [found |-> FALSE, pu |-> replace \/ (last_leg.type # "jpl_array_cell"),
          pos |-> 0]

\* update_element without the space check: the value is written at the
\* offset has_space reports whether or not it fits.
update_element_unchecked(mem, this, parent, element_pos, new_value) ==
  LET needed == space_needed(new_value, parent.large)
      space == has_space(mem, parent, element_pos, needed)
      data_offset == IF needed > 0 THEN space.offset ELSE 0
  IN  shadow_update(mem, this, parent, element_pos, new_value, data_offset, needed)

\* update_element that copies the document into an empty result buffer
\* before it checks the space.
update_element_seeding(mem, this, parent, element_pos, new_value) ==
  LET needed == space_needed(new_value, parent.large)
      space == has_space(mem, parent, element_pos, needed)
      data_offset == IF needed > 0 THEN space.offset ELSE 0
      seeded == IF mem["result"] = <<>> THEN [mem EXCEPT !["result"] = raw_binary(mem, this)]
                ELSE mem
  IN  IF needed > 0 /\ ~space.ok
      THEN UpdateReturn(FALSE, FALSE, seeded, this, "none", "none")
      ELSE shadow_update(mem, this, parent, element_pos, new_value, data_offset, needed)

\* attempt_binary_update once the element is found: the space check, and
\* the shadow write when the new value fits.
update_element(mem, this, parent, element_pos, new_value) ==
  LET needed == space_needed(new_value, parent.large)
      space == has_space(mem, parent, element_pos, needed)
      data_offset == IF needed > 0 THEN space.offset ELSE 0
  IN  IF needed > 0 /\ ~space.ok
      THEN UpdateReturn(FALSE, FALSE, mem, this, "none", "none")
      ELSE shadow_update(mem, this, parent, element_pos, new_value, data_offset, needed)

\* attempt_binary_update after the seek of the parent: hits is the vector
\* the seek has filled.
update_in_parent(mem, this, hits, last_leg, new_value, replace) ==
  IF hits = <<>> THEN UpdateReturn(TRUE, FALSE, mem, this, "none", "none")
  ELSE
    LET parent == hits[1]
        sw == update_element_pos(mem, parent, last_leg, replace)
    IN  IF ~sw.found THEN UpdateReturn(sw.pu, FALSE, mem, this, "none", "none")
        ELSE update_element(mem, this, parent, sw.pos, new_value)

attempt_binary_update(mem, this, path, new_value, replace) ==
  IF Len(path) = 0 THEN UpdateReturn(FALSE, FALSE, mem, this, "none", "none")
  ELSE update_in_parent(mem, this,
                        seek_no_ellipsis(mem, this, path, <<>>, 0, Len(path) - 1,
                                         FALSE, TRUE),
                        path[Len(path)], new_value, replace)

RemoveReturn(found, mem, this, original, destination) ==
  [found_path |-> found, mem |-> mem, m_value |-> this,
   original |-> original, destination |-> destination]

\* shadow_remove that leaves m_value reading the buffer it read before.
shadow_remove_stale_wrapper(mem, this, parent, element_pos) ==
  LET empty == mem["result"] = <<>>
      mem1 == IF empty THEN [mem EXCEPT !["result"] = raw_binary(mem, this)] ELSE mem
      original == IF empty THEN "field" ELSE "result"
      mem2 == remove_in_shadow(mem1, parent, element_pos, original, "result")
  IN  RemoveReturn(TRUE, mem2, this, original, "result")

\* The tail of binary_remove, from the choice of the original buffer on.
shadow_remove(mem, this, parent, element_pos) ==
  LET empty == mem["result"] = <<>>
      mem1 == IF empty THEN [mem EXCEPT !["result"] = raw_binary(mem, this)] ELSE mem
      original == IF empty THEN "field" ELSE "result"
      destination == "result"
      mem2 == remove_in_shadow(mem1, parent, element_pos, original, destination)
  IN  RemoveReturn(TRUE, mem2, parse_binary(mem2, "result", Len(mem2["result"])),
                   original, destination)

\* remove_element_pos that resolves any leg into an array as a cell index,
\* without asking for the type of the leg.
remove_element_pos_any_leg(mem, parent, last_leg) ==
  CASE parent.type = "OBJECT" ->
         IF last_leg.type # "jpl_member" THEN [found |-> FALSE, pos |-> 0]
         ELSE [found |-> TRUE, pos |-> lookup_index(mem, parent, last_leg.name)]
    [] parent.type = "ARRAY" ->
         LET idx == first_array_index(last_leg, parent.element_count)
         IN  IF ~idx.within_bounds THEN [found |-> FALSE, pos |-> 0]
             ELSE [found |-> TRUE, pos |-> idx.position]
    [] OTHER -> [found |-> FALSE, pos |-> 0]

\* The switch on parent.type() of binary_remove: found is FALSE where the
\* switch returns, pos is element_pos where it does not.
remove_element_pos(mem, parent, last_leg) ==
  CASE parent.type = "OBJECT" ->
         IF last_leg.type # "jpl_member" THEN [found |-> FALSE, pos |-> 0]
         ELSE [found |-> TRUE, pos |-> lookup_index(mem, parent, last_leg.name)]
    [] parent.type = "ARRAY" ->
         IF last_leg.type # "jpl_array_cell" THEN [found |-> FALSE, pos |-> 0]
         ELSE LET idx == first_array_index(last_leg, parent.element_count)
              IN  IF ~idx.within_bounds THEN [found |-> FALSE, pos |-> 0]
                  ELSE [found |-> TRUE, pos |-> idx.position]
    [] OTHER -> [found |-> FALSE, pos |-> 0]

\* binary_remove after the seek of the parent: hits is the vector the seek
\* has filled.
remove_in_parent(mem, this, hits, last_leg) ==
  IF hits = <<>> THEN RemoveReturn(FALSE, mem, this, "none", "none")
  ELSE
    LET parent == hits[1]
        sw == remove_element_pos(mem, parent, last_leg)
    IN  IF ~sw.found \/ sw.pos >= parent.element_count
        THEN RemoveReturn(FALSE, mem, this, "none", "none")
        ELSE shadow_remove(mem, this, parent, sw.pos)

\* Json_wrapper::binary_remove; the path has at least one leg.
binary_remove(mem, this, path) ==
  remove_in_parent(mem, this,
                   seek_no_ellipsis(mem, this, path, <<>>, 0, Len(path) - 1, FALSE, TRUE),
                   path[Len(path)])

(***************************************************************************)
(* The caller of the partial update (JSON_SET and JSON_REPLACE): it strips *)
(* the legs auto-wrapping makes redundant from the path, tries the partial *)
(* update and, when that declines, updates the DOM of the document.        *)
(***************************************************************************)
\* clone_without_autowrapping: the path without the $[0] and $[last] legs
\* that address a value which is not an array.
\* The path so far finds a value, and the value is not an array.
finds_non_array(hits) == hits # <<>> /\ bjson2json(hits[1].type) # "J_ARRAY"

RECURSIVE clone_without_autowrapping(_, _, _, _, _)
clone_without_autowrapping(mem, this, source_path, leg_idx, target_path) ==
  IF leg_idx >= Len(source_path) THEN target_path
  ELSE
    LET path_leg == source_path[leg_idx + 1]
        redundant == /\ is_autowrap(path_leg)
                     /\ finds_non_array(seek_no_ellipsis(mem, this, target_path, <<>>, 0,
                                                         Len(target_path), FALSE, TRUE))
    IN  clone_without_autowrapping(mem, this, source_path, leg_idx + 1,
                                   IF redundant THEN target_path
                                   ELSE Append(target_path, path_leg))

\* The update of the DOM that JSON_SET (replace = FALSE) and JSON_REPLACE
\* (replace = TRUE) make: a value the path finds, auto-wrapping allowed, is
\* replaced; otherwise JSON_REPLACE changes nothing and JSON_SET adds the
\* value to the parent the path finds: as a new member of an object, as a
\* new cell of an array, or by wrapping a parent that is not an array in
\* an array when the last leg is a cell.
apply_update(dom, path, new_value, replace) ==
  IF path = <<>> THEN new_value
  ELSE
    LET hits == Json_dom_seek(dom, path, TRUE, TRUE)
    IN  IF hits # <<>> THEN ReplaceAt(dom, hits[1], new_value)
        ELSE IF replace THEN dom
        ELSE
          LET phits == Json_dom_seek(dom, SubSeq(path, 1, Len(path) - 1), TRUE, TRUE)
              leg == path[Len(path)]
          IN  IF phits = <<>> THEN dom
              ELSE
                LET parent == NodeAt(dom, phits[1])
                IN  CASE leg.type = "jpl_array_cell" /\ parent.k = "J_ARRAY" ->
                           ReplaceAt(dom, phits[1],
                             JArray(InsertAt(parent.kids,
                                             first_array_index(leg, Len(parent.kids)).position + 1,
                                             new_value)))
                      [] leg.type = "jpl_array_cell" /\ parent.k # "J_ARRAY" ->
                           ReplaceAt(dom, phits[1],
                             JArray(IF leg.from_end THEN <<new_value, parent>>
                                    ELSE <<parent, new_value>>))
                      [] leg.type = "jpl_member" /\ parent.k = "J_OBJECT" ->
                           ReplaceAt(dom, phits[1], ObjAddAlias(parent, leg.name, new_value))
                      [] OTHER -> dom

(***************************************************************************)
(* The DOM on the heap.  heap[p] is the Json_dom object at address p;      *)
(* address 0 is the null pointer.  An object that has been deleted keeps   *)
(* the contents it had (live = FALSE): reading or writing it is a use      *)
(* after free.                                                             *)
(*   type   : the enum_json_type of the object                             *)
(*   parent : m_parent                                                     *)
(*   keys   : the keys of m_map of a Json_object, in the order of the map  *)
(*   kids   : the values of m_map, or m_v of a Json_array                  *)
(*   v      : the value of a scalar                                        *)
(***************************************************************************)
NullPtr == 0

Node(type, v) ==
  [type |-> type, live |-> TRUE, parent |-> NullPtr, keys |-> <<>>, kids |-> <<>>,
   v |-> v]

\* new (std::nothrow) of a Json_dom: the heap with the new object, and its
\* address.
new_dom(h, type, v) == [heap |-> Append(h, Node(type, v)), ptr |-> Len(h) + 1]

\* The objects a delete of p destroys: p and, through the destructors of
\* Json_object (clear) and Json_array (delete_container_pointers), the
\* values it holds, and so on level by level: level holds the values of
\* the current level and seen the objects of the levels above.
RECURSIVE owned_below(_, _, _)
owned_below(h, level, seen) ==
  IF seen # {} /\ level = {} THEN seen
  ELSE owned_below(h,
                   UNION {{h[q].kids[i] : i \in 1..Len(h[q].kids)} : q \in level}
                     \ {NullPtr},
                   seen \cup level)

Owned(h, p) ==
  IF p = NullPtr THEN {}
  ELSE owned_below(h, {h[p].kids[i] : i \in 1..Len(h[p].kids)} \ {NullPtr}, {p})

\* delete p.
destroy(h, gone) ==
  SubSeq([q \in 1..Len(h) |-> IF q \in gone THEN [h[q] EXCEPT !.live = FALSE] ELSE h[q]],
         1, Len(h))

delete_dom(h, p) == destroy(h, Owned(h, p))

\* The value of the DOM at p, as data.
RECURSIVE HeapToDom(_, _)
HeapToDom(h, p) ==
  IF p = NullPtr THEN JError
  ELSE [k |-> h[p].type, v |-> h[p].v, keys |-> h[p].keys,
        kids |-> [i \in 1..Len(h[p].kids) |-> HeapToDom(h, h[p].kids[i])]]

\* Json_dom::set_parent.
set_parent(h, p, parent) == [h EXCEPT ![p].parent = parent]

\* add_alias that replaces the value of a key the object has already.
Json_object_add_alias_last_wins(h, this, name, value) ==
  IF value = NullPtr THEN [heap |-> h, ret |-> TRUE]
  ELSE IF KeyPos(h[this].keys, name) # 0
       THEN LET pos == KeyPos(h[this].keys, name)
                h1 == delete_dom(h, h[this].kids[pos])
            IN  [heap |-> set_parent([h1 EXCEPT ![this].kids[pos] = value], value, this),
                 ret |-> FALSE]
       ELSE LET pos == InsertPos(h[this].keys, name)
                h1 == [h EXCEPT ![this].keys = InsertAt(@, pos, name),
                                ![this].kids = InsertAt(@, pos, value)]
            IN  [heap |-> set_parent(h1, value, this), ret |-> FALSE]

\* Json_object::add_alias(key, value) on the object at this: the heap
\* after the call and the value returned.  The unique_ptr deletes the value
\* that m_map.insert did not take.
Json_object_add_alias(h, this, name, value) ==
  IF value = NullPtr THEN [heap |-> h, ret |-> TRUE]
  ELSE IF KeyPos(h[this].keys, name) # 0
       THEN [heap |-> delete_dom(h, value), ret |-> FALSE]
       ELSE LET pos == InsertPos(h[this].keys, name)
                h1 == [h EXCEPT ![this].keys = InsertAt(@, pos, name),
                                ![this].kids = InsertAt(@, pos, value)]
            IN  [heap |-> set_parent(h1, value, this), ret |-> FALSE]

\* insert_alias that leaves the parent of the value as it was.
Json_array_insert_alias_no_parent(h, this, index, value) ==
  IF value = NullPtr THEN [heap |-> h, ret |-> TRUE]
  ELSE LET pos == Min(Len(h[this].kids), index)
       IN  [heap |-> [h EXCEPT ![this].kids = InsertAt(@, pos + 1, value)],
            ret |-> FALSE]

\* Json_array::insert_alias(index, value), and append_alias, which
\* inserts at size().
Json_array_insert_alias(h, this, index, value) ==
  IF value = NullPtr THEN [heap |-> h, ret |-> TRUE]
  ELSE LET pos == Min(Len(h[this].kids), index)
           h1 == [h EXCEPT ![this].kids = InsertAt(@, pos + 1, value)]
       IN  [heap |-> set_parent(h1, value, this), ret |-> FALSE]

Json_array_append_alias(h, this, value) ==
  Json_array_insert_alias(h, this, Len(h[this].kids), value)

\* wrap_in_array(dom): a new Json_array(dom).
wrap_in_array(h, dom) ==
  LET a == new_dom(h, "J_ARRAY", <<>>)
  IN  [heap |-> Json_array_append_alias(a.heap, a.ptr, dom).heap, ptr |-> a.ptr]

\* make_mergeable(candidate).
make_mergeable(h, candidate) ==
  IF h[candidate].type \in {"J_ARRAY", "J_OBJECT"}
  THEN [heap |-> h, ptr |-> candidate]
  ELSE wrap_in_array(h, candidate)

\* The loop of consume with the values of other put in front of the values
\* this has got so far.
RECURSIVE Json_array_consume_loop_front(_, _, _, _)
Json_array_consume_loop_front(h, this, other, iter) ==
  IF iter > Len(h[other].kids) THEN h
  ELSE LET h1 == Json_array_insert_alias(h, this, 0, h[other].kids[iter]).heap
           h2 == [h1 EXCEPT ![other].kids[iter] = NullPtr]
       IN  Json_array_consume_loop_front(h2, this, other, iter + 1)

\* Json_array::consume(other): the loop appends the values of other to
\* this and clears the slots of other, which aptr then deletes.
RECURSIVE Json_array_consume_loop(_, _, _, _)
Json_array_consume_loop(h, this, other, iter) ==
  IF iter > Len(h[other].kids) THEN h
  ELSE LET h1 == Json_array_append_alias(h, this, h[other].kids[iter]).heap
           h2 == [h1 EXCEPT ![other].kids[iter] = NullPtr]
       IN  Json_array_consume_loop(h2, this, other, iter + 1)

Json_array_consume(h, this, other) ==
  [heap |-> delete_dom(Json_array_consume_loop(h, this, other, 1), other),
   ret |-> FALSE]

\* Json_object::consume that keeps the value this has under a key of both
\* objects and deletes the value of other.
RECURSIVE Json_object_consume_keep_first(_, _, _)
Json_object_consume_keep_first(h, this, other) ==
  IF h[other].kids = <<>>
  THEN [heap |-> delete_dom(h, other), ret |-> FALSE]
  ELSE
    LET name == h[other].keys[1]
        value == h[other].kids[1]
        h1 == [h EXCEPT ![other].kids[1] = NullPtr]
        h2 == Json_object_add_alias(h1, this, name, value).heap
        h3 == [h2 EXCEPT ![other].keys = Tail(@), ![other].kids = Tail(@)]
    IN  Json_object_consume_keep_first(h3, this, other)

\* merge_doms(left, right) and Json_object::consume(other), which calls
\* merge_doms for a key of both objects.  consume takes the entries of
\* other's map one by one: the value goes to this, the entry is erased;
\* uptr deletes other in the end.
RECURSIVE merge_doms(_, _, _)
RECURSIVE Json_object_consume(_, _, _)
Json_object_consume(h, this, other) ==
  IF h[other].kids = <<>>
  THEN [heap |-> delete_dom(h, other), ret |-> FALSE]
  ELSE
    LET name == h[other].keys[1]
        value == h[other].kids[1]
        h1 == [h EXCEPT ![other].kids[1] = NullPtr]
        this_iter == KeyPos(h1[this].keys, name)
        h2 == IF this_iter = 0
              THEN Json_object_add_alias(h1, this, name, value).heap
              ELSE LET m == merge_doms(h1, h1[this].kids[this_iter], value)
                   IN  set_parent([m.heap EXCEPT ![this].kids[this_iter] = m.ptr],
                                  m.ptr, this)
        h3 == [h2 EXCEPT ![other].keys = Tail(@), ![other].kids = Tail(@)]
    IN  Json_object_consume(h3, this, other)

merge_doms(h, left, right) ==
  LET l == make_mergeable(h, left)
      r == make_mergeable(l.heap, right)
      left_is_array == r.heap[l.ptr].type = "J_ARRAY"
      right_is_array == r.heap[r.ptr].type = "J_ARRAY"
  IN  IF left_is_array \/ right_is_array
      THEN LET lw == IF ~left_is_array THEN wrap_in_array(r.heap, l.ptr)
                     ELSE [heap |-> r.heap, ptr |-> l.ptr]
               rw == IF ~right_is_array THEN wrap_in_array(lw.heap, r.ptr)
                     ELSE [heap |-> lw.heap, ptr |-> r.ptr]
           IN  [heap |-> Json_array_consume(rw.heap, lw.ptr, rw.ptr).heap,
                ptr |-> lw.ptr]
      ELSE [heap |-> Json_object_consume(r.heap, l.ptr, r.ptr).heap, ptr |-> l.ptr]

\* Json_array::remove(index): the heap after the call and the value
\* returned.
Json_array_remove(h, this, index) ==
  IF index < Len(h[this].kids)
  THEN [heap |-> [delete_dom(h, h[this].kids[index + 1])
                    EXCEPT ![this].kids = RemoveAt(@, index + 1)],
        ret |-> TRUE]
  ELSE [heap |-> h, ret |-> FALSE]

\* Json_object::remove(key).
Json_object_remove(h, this, name) ==
  IF KeyPos(h[this].keys, name) = 0 THEN [heap |-> h, ret |-> FALSE]
  ELSE [heap |-> [delete_dom(h, h[this].kids[KeyPos(h[this].keys, name)])
                    EXCEPT ![this].keys = RemoveAt(@, KeyPos(h[this].keys, name)),
                           ![this].kids = RemoveAt(@, KeyPos(h[this].keys, name))],
        ret |-> TRUE]

\* Json_array::replace_dom_in_container and
\* Json_object::replace_dom_in_container(oldv, newv): the first slot that
\* holds oldv gets newv, and oldv is deleted; nothing happens when no slot
\* holds oldv.
replace_dom_in_container(h, this, oldv, newv) ==
  IF \E i \in 1..Len(h[this].kids) : h[this].kids[i] = oldv
  THEN set_parent([delete_dom(h, oldv) EXCEPT
                     ![this].kids[CHOOSE i \in 1..Len(h[this].kids) :
                                    /\ h[this].kids[i] = oldv
                                    /\ \A j \in 1..(i - 1) : h[this].kids[j] # oldv] = newv],
                  newv, this)
  ELSE h

\* Json_dom::clone(): Json_object::clone adds a clone of every member with
\* add_clone, Json_array::clone appends a clone of every cell with
\* append_clone, a scalar makes a new scalar of its value.
RECURSIVE Json_dom_clone(_, _)
RECURSIVE clone_children(_, _, _, _)
clone_children(h, this, vv, iter) ==
  IF iter > Len(h[this].kids) THEN h
  ELSE LET c == Json_dom_clone(h, h[this].kids[iter])
       IN  clone_children(
             IF h[this].type = "J_OBJECT"
             THEN Json_object_add_alias(c.heap, vv, h[this].keys[iter], c.ptr).heap
             ELSE Json_array_append_alias(c.heap, vv, c.ptr).heap,
             this, vv, iter + 1)

Json_dom_clone(h, this) ==
  [heap |-> clone_children(new_dom(h, h[this].type, h[this].v).heap, this, Len(h) + 1, 1),
   ptr |-> Len(h) + 1]

\* Json_dom::depth(): 1 for a scalar, Json_array::depth() and
\* Json_object::depth() one more than the deepest child, that is the
\* number of levels of the tree below and including the DOM.  The levels
\* are counted one after the other: level holds the DOMs of the current
\* level and n the number of levels already counted.
RECURSIVE levels_below(_, _, _)
levels_below(h, level, n) ==
  IF n >= 0 /\ level = {} THEN n
  ELSE levels_below(h, UNION {{h[p].kids[i] : i \in 1..Len(h[p].kids)} : p \in level},
                    n + 1)

Json_dom_depth(h, this) == levels_below(h, {this}, 0)

(***************************************************************************)
(* Rapid_json_handler and Json_dom::parse(text).  The reader reports the   *)
(* tokens of a syntactically valid text to the callbacks of the handler    *)
(* and stops at the first callback that returns false.                     *)
(*                                                                         *)
(* A callback that uses a deleted object through m_current_element has     *)
(* undefined behaviour.  Its outcomes here are a crash, and a run on with  *)
(* the contents the freed object had ("stale").  Using the null pointer    *)
(* crashes.  DBUG_ASSERT does nothing, as in a release build.              *)
(***************************************************************************)
JSON_DOCUMENT_MAX_DEPTH == 100

\* check_json_depth that lets one more level through.
check_json_depth_off_by_one(depth) == depth > JSON_DOCUMENT_MAX_DEPTH + 1

\* check_json_depth(depth): true when the depth exceeds the maximum.
check_json_depth(depth) == depth > JSON_DOCUMENT_MAX_DEPTH

UseAfterFree == {"stale", "crash"}

\* Whether a use of the object at p goes on, given the outcome ub of a use
\* after free.
CanUse(h, p, ub) == p # NullPtr /\ (h[p].live \/ ub = "stale")

\* The out-parameters of a callback: the heap and the handler after it,
\* what it returns, and whether it crashed.
Callback(h, hd, ret) == [heap |-> h, handler |-> hd, ret |-> ret, crashed |-> FALSE]

Crash(h, hd) == [heap |-> h, handler |-> hd, ret |-> FALSE, crashed |-> TRUE]

\* Rapid_json_handler::seeing_value(value).  uptr deletes the value on the
\* paths that do not hand it over.
seeing_value(h, hd, value, ub) ==
  IF value = NullPtr \/ check_json_depth(hd.m_depth + 1)
  THEN Callback(delete_dom(h, value), hd, FALSE)
  ELSE
    CASE hd.m_state = "expect_anything" ->
           Callback(delete_dom(h, hd.m_dom_as_built),
                    [hd EXCEPT !.m_dom_as_built = value, !.m_state = "expect_eof"],
                    TRUE)
      [] hd.m_state = "expect_array_value" ->
           IF ~CanUse(h, hd.m_current_element, ub) THEN Crash(h, hd)
           ELSE LET r == Json_array_append_alias(h, hd.m_current_element, value)
                IN  IF r.ret THEN Callback(delete_dom(r.heap, value), hd, FALSE)
                    ELSE Callback(r.heap, hd, TRUE)
      [] hd.m_state = "expect_object_value" ->
           LET hd1 == [hd EXCEPT !.m_state = "expect_object_key"]
           IN  IF ~CanUse(h, hd.m_current_element, ub) THEN Crash(h, hd1)
               ELSE LET r == Json_object_add_alias(h, hd.m_current_element,
                                                   hd.m_key, value)
                    IN  Callback(r.heap, hd1, ~r.ret)
      [] OTHER -> Callback(delete_dom(h, value), hd, FALSE)

\* Null, Bool, Int, Uint, Int64, Uint64, Double and String: each calls
\* seeing_value with a new scalar.
scalar_callback(h, hd, type, v, ub) ==
  LET n == new_dom(h, type, v)
  IN  seeing_value(n.heap, hd, n.ptr, ub)

\* StartObject and StartArray.
start_callback(h, hd, type, ub) ==
  LET n == new_dom(h, type, <<>>)
      r == seeing_value(n.heap, hd, n.ptr, ub)
  IN  IF r.crashed THEN r
      ELSE Callback(r.heap,
                    [r.handler EXCEPT
                       !.m_depth = @ + 1,
                       !.m_current_element = n.ptr,
                       !.m_state = IF type = "J_OBJECT" THEN "expect_object_key"
                                   ELSE "expect_array_value"],
                    r.ret)

StartObject(h, hd, ub) == start_callback(h, hd, "J_OBJECT", ub)

StartArray(h, hd, ub) == start_callback(h, hd, "J_ARRAY", ub)

\* Key(str, len).
Key(h, hd, str) ==
  IF check_json_depth(hd.m_depth + 1) THEN Callback(h, hd, FALSE)
  ELSE Callback(h, [hd EXCEPT !.m_state = "expect_object_value", !.m_key = str], TRUE)

\* end_object_or_array(), which EndObject and EndArray call.  m_depth is a
\* size_t: the run of a parse never takes it below 0 before it crashes.
end_object_or_array(h, hd, ub) ==
  IF ~CanUse(h, hd.m_current_element, ub)
  THEN Crash(h, [hd EXCEPT !.m_depth = @ - 1])
  ELSE
    LET up == h[hd.m_current_element].parent
        hd1 == [hd EXCEPT !.m_depth = @ - 1, !.m_current_element = up]
    IN  IF up = NullPtr THEN Callback(h, [hd1 EXCEPT !.m_state = "expect_eof"], TRUE)
        ELSE IF ~CanUse(h, up, ub) THEN Crash(h, hd1)
        ELSE IF h[up].type = "J_OBJECT"
             THEN Callback(h, [hd1 EXCEPT !.m_state = "expect_object_key"], TRUE)
             ELSE Callback(h, [hd1 EXCEPT !.m_state = "expect_array_value"], TRUE)

\* The handler as constructed.
Rapid_json_handler ==
  [m_state |-> "expect_anything", m_dom_as_built |-> NullPtr,
   m_current_element |-> NullPtr, m_depth |-> 0, m_key |-> <<>>]

\* The tokens of a text.  A text is given as its syntax tree: a JSON value
\* whose objects list their members in the order of the text, with the
\* keys as often as the text has them.
Token(tok, name, value) == [tok |-> tok, name |-> name, value |-> value]

RECURSIVE Tokens(_)
RECURSIVE MemberTokens(_, _)
MemberTokens(text, i) ==
  IF i > Len(text.kids) THEN <<>>
  ELSE (IF text.k = "J_OBJECT" THEN <<Token("Key", text.keys[i], JNull)>> ELSE <<>>)
       \o Tokens(text.kids[i]) \o MemberTokens(text, i + 1)

Tokens(text) ==
  CASE text.k = "J_OBJECT" ->
         <<Token("StartObject", <<>>, JNull)>> \o MemberTokens(text, 1)
         \o <<Token("EndObject", <<>>, JNull)>>
    [] text.k = "J_ARRAY" ->
         <<Token("StartArray", <<>>, JNull)>> \o MemberTokens(text, 1)
         \o <<Token("EndArray", <<>>, JNull)>>
    [] OTHER -> <<Token("Scalar", <<>>, text)>>

\* The heap with a copy of the DOM d allocated on it, and the address of
\* the copy: what the constructors and add_alias / append_alias calls
\* that build d leave.
RECURSIVE alloc_dom(_, _)
RECURSIVE alloc_kids(_, _, _, _)
alloc_kids(h, d, parent, i) ==
  IF i > Len(d.kids) THEN h
  ELSE LET r == alloc_dom(h, d.kids[i])
           h1 == [r.heap EXCEPT ![parent].kids = Append(@, r.ptr)]
       IN  alloc_kids(set_parent(h1, r.ptr, parent), d, parent, i + 1)

alloc_dom(h, d) ==
  LET n == new_dom(h, d.k, d.v)
      h1 == [n.heap EXCEPT ![n.ptr].keys = d.keys]
  IN  [heap |-> alloc_kids(h1, d, n.ptr, 1), ptr |-> n.ptr]

(***************************************************************************)
(* The documents, paths and values of the model.                           *)
(***************************************************************************)
KeyA == <<97>>

KeyB == <<98>>

\* The scalars of the stored documents: one that is inlined in its value
\* entry and one that is stored at an offset.
DocInt == JInt(1)

DocString == JString(<<99, 100, 101>>)

DocScalars == {DocInt, DocString}

ArraysOf(S) ==
  {JArray(<<>>)} \cup {JArray(<<x>>) : x \in S} \cup {JArray(<<x, y>>) : x \in S, y \in S}

ObjectsOf(S) ==
  {JObject(<<>>, <<>>)} \cup {JObject(<<KeyA>>, <<x>>) : x \in S}
  \cup {JObject(<<KeyA, KeyB>>, <<x, y>>) : x \in S, y \in S}

LeafContainers == ArraysOf(DocScalars) \cup ObjectsOf(DocScalars)

\* The containers nested in other containers.
InnerContainers ==
  {JArray(<<DocString>>), JArray(<<DocInt, DocString>>),
   JObject(<<KeyA>>, <<DocInt>>), JObject(<<KeyA, KeyB>>, <<DocString, DocInt>>)}

\* The stored documents: a scalar, the containers of scalars, and arrays
\* and objects that hold a container followed by a scalar.
Docs ==
  {DocString} \cup LeafContainers
  \cup {JArray(<<c, DocString>>) : c \in InnerContainers}
  \cup {JObject(<<KeyA, KeyB>>, <<c, DocInt>>) : c \in InnerContainers}

\* The new values: one that is inlined, a string shorter and a string
\* longer than the string of the documents.
NewValues == {JInt(2), JString(<<120, 121>>), JString(<<120, 121, 122, 119>>)}

\* $.a, $.b, $[0], $[1] and $[last].
Legs ==
  {MemberLeg(KeyA), MemberLeg(KeyB), CellLeg(0, FALSE), CellLeg(1, FALSE),
   CellLeg(0, TRUE)}

\* Paths of up to two legs; JSON_SET, JSON_REPLACE and JSON_REMOVE accept
\* neither wildcards nor ellipses.
Paths ==
  {<<>>} \cup {<<l>> : l \in Legs}
  \cup {<<l1, l2>> : l1 \in Legs \ {CellLeg(0, TRUE)}, l2 \in Legs}

Mem == [field |-> field_binary, result |-> result]

NoCall ==
  [op |-> "none", path |-> <<>>, new_value |-> JNull, replace |-> FALSE,
   partially_updated |-> FALSE, replaced_path |-> FALSE, found_path |-> FALSE,
   original |-> "none", destination |-> "none",
   before |-> [field |-> <<>>, result |-> <<>>], m_value_before |-> ErrorValue]

\* The state of the DOM variables while no parse and no DOM call runs.
NoHandler == [m_state |-> "none", m_dom_as_built |-> NullPtr,
              m_current_element |-> NullPtr, m_depth |-> 0, m_key |-> <<>>]

NoReader == [input |-> JNull, tokens |-> <<>>, pos |-> 0, status |-> "none", success |-> FALSE,
             dom |-> NullPtr]

NoDomCall == [op |-> "none", left |-> NullPtr, right |-> NullPtr, name |-> <<>>,
              ret |-> FALSE, merged |-> NullPtr, before |-> <<>>, roots |-> {},
              calls |-> 0, out |-> <<>>, to_length |-> 0, path |-> <<>>,
              auto_wrap |-> FALSE, only_need_one |-> FALSE, m_is_dom |-> FALSE,
              wrappers |-> <<>>, deleted |-> <<>>, table |-> <<>>]

NoDom == heap = <<>> /\ handler = NoHandler /\ reader = NoReader /\ dom_call = NoDomCall

NoUpdate ==
  /\ field_binary = <<>> /\ result = <<>> /\ m_value = ErrorValue
  /\ ncalls = 0 /\ last = NoCall

InitUpdate ==
  /\ \E d \in Docs :
       /\ field_binary = serialize(d)
       /\ m_value = parse_binary([field |-> serialize(d), result |-> <<>>], "field",
                                 Len(serialize(d)))
  /\ result = <<>>
  /\ ncalls = 0
  /\ last = NoCall
  /\ NoDom

\* last observes one call of a sequence: the calls before it leave last
\* as it is, and the sequence ends with the observed call.
CanCall == ncalls < MaxCalls /\ last.op = "none"

CanObserve(observe) == observe \/ ncalls + 1 < MaxCalls

Observe(observe, record) ==
  /\ last' = IF observe THEN record ELSE NoCall
  /\ ncalls' = ncalls + 1
  /\ UNCHANGED domVars

\* One call of attempt_binary_update by JSON_SET (replace = FALSE) or
\* JSON_REPLACE (replace = TRUE) with the path the caller has stripped.
AttemptBinaryUpdate ==
  /\ CanCall
  /\ \E source_path \in Paths, new_value \in NewValues, replace \in BOOLEAN,
        observe \in {b \in BOOLEAN : CanObserve(b)} :
    \E path \in {clone_without_autowrapping(Mem, m_value, source_path, 0, <<>>)} :
    \E r \in {attempt_binary_update(Mem, m_value, path, new_value, replace)} :
        /\ field_binary' = r.mem["field"]
        /\ result' = r.mem["result"]
        /\ m_value' = r.m_value
        /\ Observe(observe,
                   [op |-> "update", path |-> path, new_value |-> new_value,
                    replace |-> replace,
                    partially_updated |-> r.partially_updated,
                    replaced_path |-> r.replaced_path, found_path |-> FALSE,
                    original |-> r.original, destination |-> r.destination,
                    before |-> Mem, m_value_before |-> m_value])

\* One call of binary_remove by JSON_REMOVE, which rejects the empty path.
BinaryRemove ==
  /\ CanCall
  /\ \E path \in Paths \ {<<>>}, observe \in {b \in BOOLEAN : CanObserve(b)} :
    \E r \in {binary_remove(Mem, m_value, path)} :
        /\ field_binary' = r.mem["field"]
        /\ result' = r.mem["result"]
        /\ m_value' = r.m_value
        /\ Observe(observe,
                   [op |-> "remove", path |-> path, new_value |-> JNull,
                    replace |-> FALSE,
                    partially_updated |-> FALSE, replaced_path |-> FALSE,
                    found_path |-> r.found_path,
                    original |-> r.original, destination |-> r.destination,
                    before |-> Mem, m_value_before |-> m_value])

NextUpdate == AttemptBinaryUpdate \/ BinaryRemove

SpecUpdate == InitUpdate /\ [][NextUpdate]_vars

(***************************************************************************)
(* Partial update and partial remove: what the observed call did.          *)
(***************************************************************************)
\* The document before and after the observed call, as DOMs.
DomBefore == BinToDom(last.before, last.m_value_before)

DomAfter == BinToDom(Mem, m_value)

Updated == last.op = "update"

Removed == last.op = "remove"

\* The parent of the addressed value in the DOM of the document before
\* the call, sought without auto-wrapping: <<>> or one location.
ParentHits ==
  IF last.path = <<>> THEN <<>>
  ELSE Json_dom_seek(DomBefore, SubSeq(last.path, 1, Len(last.path) - 1), FALSE, TRUE)

HasParent == ParentHits # <<>>

ParentDom == NodeAt(DomBefore, ParentHits[1])

LastLeg == last.path[Len(last.path)]

\* The position (from 1) of the child of the parent the last leg
\* addresses, 0 when it addresses none.
AddressedPos ==
  CASE ParentDom.k = "J_OBJECT" /\ LastLeg.type = "jpl_member" ->
         KeyPos(ParentDom.keys, LastLeg.name)
    [] ParentDom.k = "J_ARRAY" /\ LastLeg.type = "jpl_array_cell" ->
         LET n == Len(ParentDom.kids)
             i == IF LastLeg.from_end THEN n - 1 - LastLeg.index ELSE LastLeg.index
         IN  IF 0 <= i /\ i < n THEN i + 1 ELSE 0
    [] OTHER -> 0

LegMatchesParent ==
  \/ ParentDom.k = "J_OBJECT" /\ LastLeg.type = "jpl_member"
  \/ ParentDom.k = "J_ARRAY" /\ LastLeg.type = "jpl_array_cell"

\* C1: after a call of attempt_binary_update that reports
\* partially_updated = true, the buffer the wrapper reads the document
\* from, and the document in it, have the byte length of the binary
\* document before the call, for every call of a sequence of partial
\* updates and removes on one result buffer.
C1_LengthKept ==
  (Updated /\ last.partially_updated) =>
    LET before_len == Len(raw_binary(last.before, last.m_value_before))
    IN  /\ Len(Mem[m_value.buf]) = before_len
        /\ Len(raw_binary(Mem, m_value)) = before_len

\* A second update of a sequence replaced a value in the result buffer
\* the first one had filled.
C1_Witness ==
  /\ Updated /\ last.partially_updated /\ last.replaced_path
  /\ ncalls = 2 /\ last.before["result"] # <<>>
  /\ result # last.before["result"]

\* C2: after a call that reports partially_updated = true, the document
\* read from the wrapper is the document JSON_SET or JSON_REPLACE makes of
\* the DOM of the document before the call, with the same path and value;
\* with replaced_path = false that is the unchanged document.
C2_SameAsDomUpdate ==
  (Updated /\ last.partially_updated) =>
    /\ DomAfter = apply_update(DomBefore, last.path, last.new_value, last.replace)
    /\ ~last.replaced_path => DomAfter = DomBefore

\* A string in a nested container was replaced by a shorter string.
C2_Witness ==
  /\ Updated /\ last.partially_updated /\ last.replaced_path
  /\ Len(last.path) = 2
  /\ last.new_value.k = "J_STRING"
  /\ DomAfter # DomBefore

\* The parent the handler found in the binary document before the call.
BinParent ==
  seek_no_ellipsis(last.before, last.m_value_before, last.path, <<>>, 0,
                   Len(last.path) - 1, FALSE, TRUE)[1]

\* The last leg addresses an existing member or cell of the parent.
Addressed == HasParent /\ LegMatchesParent /\ AddressedPos # 0

\* The new value is inlined or the parent has the space for it.
Fits ==
  LET needed == space_needed(last.new_value, BinParent.large)
  IN  needed = 0 \/ has_space(last.before, BinParent, AddressedPos - 1, needed).ok

\* The call left the wrapper and both buffers as they were.
NothingChanged ==
  /\ m_value = last.m_value_before
  /\ result = last.before["result"]
  /\ field_binary = last.before["field"]

\* C3 as stated: whenever the kind of the last leg does not match the kind
\* of the parent (a cell leg into an object, a member leg into an array,
\* any leg into a scalar), SET declines with partially_updated = false and
\* REPLACE reports partially_updated = true, replaced_path = false.
C3_MismatchSetDeclines ==
  (Updated /\ HasParent /\ ~LegMatchesParent) =>
    /\ ~last.replaced_path
    /\ last.partially_updated = last.replace

\* C3: with an array-cell leg into an object or a scalar, SET declines
\* (partially_updated = false) and REPLACE reports partially_updated = true
\* with replaced_path = false; with a member leg into an array or a scalar,
\* both SET and REPLACE report partially_updated = true with
\* replaced_path = false.  Nothing is written in either case.
C3_MismatchByLeg ==
  (Updated /\ HasParent /\ ~LegMatchesParent) =>
    /\ ~last.replaced_path
    /\ NothingChanged
    /\ LastLeg.type = "jpl_array_cell" => last.partially_updated = last.replace
    /\ LastLeg.type = "jpl_member" => last.partially_updated

\* SET with a member leg into an array reported partially_updated = true.
C3_Witness ==
  /\ Updated /\ HasParent /\ ~last.replace
  /\ ParentDom.k = "J_ARRAY" /\ LastLeg.type = "jpl_member"
  /\ last.partially_updated /\ ~last.replaced_path

\* C4: when the last leg names an absent member of an object parent, or a
\* cell out of the range of an array parent (from-end indexes resolved),
\* the call reports replaced_path = false and partially_updated = replace
\* (true for REPLACE, decline for SET); when the member or cell exists the
\* space check decides the call.
C4_AbsentElement ==
  (Updated /\ HasParent /\ LegMatchesParent) =>
    IF AddressedPos = 0
    THEN /\ ~last.replaced_path
         /\ last.partially_updated = last.replace
         /\ NothingChanged
    ELSE /\ last.partially_updated = Fits
         /\ last.replaced_path = Fits

\* REPLACE of the cell $[last] of an empty array: done, nothing replaced.
C4_Witness ==
  /\ Updated /\ HasParent /\ last.replace
  /\ ParentDom.k = "J_ARRAY" /\ LastLeg.type = "jpl_array_cell" /\ LastLeg.from_end
  /\ AddressedPos = 0
  /\ last.partially_updated /\ ~last.replaced_path

\* C5: when the addressed element exists and the new value needs more
\* bytes than the parent has free for it, the call declines for SET and
\* for REPLACE: partially_updated = false, replaced_path = false, and
\* nothing is written.
C5_NoSpaceDeclines ==
  (Updated /\ Addressed /\ ~Fits) =>
    /\ ~last.partially_updated
    /\ ~last.replaced_path
    /\ NothingChanged

\* REPLACE of $[0] of the binary [1] by a string declined.
C5_Witness ==
  /\ Updated /\ last.replace
  /\ last.before["field"] = serialize(JArray(<<JInt(1)>>))
  /\ last.before["result"] = <<>>
  /\ last.path = <<CellLeg(0, FALSE)>>
  /\ last.new_value = JString(<<120, 121, 122, 119>>)
  /\ ~last.partially_updated /\ ~last.replaced_path

\* C6 as stated: every call that writes has a destination buffer other
\* than the buffer it reads the original bytes from.
C6_SeparateDestination ==
  (last.op # "none" /\ last.destination # "none") => last.original # last.destination

\* C6: no call modifies the stored bytes of the document.  A call that
\* writes, writes into the result buffer; the original it reads is the
\* stored document when the result buffer was empty, in which case the
\* result buffer is first seeded with the document, and is the result
\* buffer itself when an earlier call has filled it.
C6_StoredBytesKept ==
  last.op # "none" =>
    /\ field_binary = last.before["field"]
    /\ last.destination # "none" =>
         /\ last.destination = "result"
         /\ last.original = IF last.before["result"] = <<>> THEN "field" ELSE "result"
         /\ Len(result) = Len(raw_binary(last.before, last.m_value_before))
         /\ m_value.buf = "result"

\* A call wrote into the result buffer an earlier call had filled.
C6_Witness ==
  /\ last.op # "none"
  /\ last.before["result"] # <<>>
  /\ last.original = "result" /\ last.destination = "result"
  /\ result # last.before["result"]
  /\ field_binary = last.before["field"]

\* The parent of the addressed value without the child at position p.
ParentWithout(p) ==
  IF ParentDom.k = "J_OBJECT"
  THEN JObject(RemoveAt(ParentDom.keys, p), RemoveAt(ParentDom.kids, p))
  ELSE JArray(RemoveAt(ParentDom.kids, p))

\* C7: binary_remove reports found_path = true exactly when the parent of
\* the path exists (sought without auto-wrapping) and the last leg
\* addresses an existing member of an object parent or an in-range cell
\* of an array parent; the document is then the document before with that
\* one element taken out of the parent, the others keeping their values
\* and order.  Otherwise it reports found_path = false and changes neither
\* the wrapper nor the result buffer.
C7_RemoveFound ==
  Removed =>
    /\ last.found_path = Addressed
    /\ Addressed =>
         /\ DomAfter = ReplaceAt(DomBefore, ParentHits[1], ParentWithout(AddressedPos))
         /\ Len(NodeAt(DomAfter, ParentHits[1]).kids) = Len(ParentDom.kids) - 1
    /\ ~Addressed => NothingChanged

\* The first of the two members of a nested object was removed.
C7_Witness ==
  /\ Removed /\ last.found_path
  /\ Len(last.path) = 2
  /\ ParentDom.k = "J_OBJECT" /\ Len(ParentDom.kids) = 2 /\ AddressedPos = 1

(***************************************************************************)
(* Parsing JSON text: Json_dom::parse(text) over the texts of the model.   *)
(***************************************************************************)
KeyC == <<99>>

\* The values of the members of the object texts.
MemberValues ==
  {JInt(1), JInt(2), JObject(<<>>, <<>>), JObject(<<KeyB>>, <<JInt(2)>>),
   JArray(<<>>), JArray(<<JInt(2)>>)}

\* Object texts of up to three members with the keys "a" and "b"; the
\* third member, where there is one, is "b": 3 or "a": 3.
ObjectTexts ==
  {JObject(<<>>, <<>>)}
  \cup {JObject(<<k1>>, <<v1>>) : k1 \in {KeyA, KeyB}, v1 \in MemberValues}
  \cup {JObject(<<k1, k2>>, <<v1, v2>>) :
          k1 \in {KeyA}, k2 \in {KeyA, KeyB}, v1 \in MemberValues, v2 \in MemberValues}
  \cup {JObject(<<KeyA, k2, k3>>, <<v1, v2, JInt(3)>>) :
          k2 \in {KeyA, KeyB}, k3 \in {KeyA, KeyB},
          v1 \in {JInt(1), JObject(<<KeyB>>, <<JInt(2)>>)}, v2 \in MemberValues}

\* The texts: a scalar, the object texts, and some of them as the only
\* element of an array and as the value of a member.
NestedTexts ==
  {JObject(<<KeyA, KeyA>>, <<JInt(1), v>>) : v \in MemberValues}

Texts ==
  {JInt(1), JArray(<<JInt(1), JInt(2)>>)} \cup ObjectTexts
  \cup {JArray(<<t, JInt(3)>>) : t \in NestedTexts}
  \cup {JObject(<<KeyC, KeyB>>, <<t, JInt(3)>>) : t \in NestedTexts}

InitParse ==
  /\ NoUpdate
  /\ heap = <<>>
  /\ handler = Rapid_json_handler
  /\ \E text \in Texts :
       reader = [input |-> text, tokens |-> Tokens(text), pos |-> 1,
                 status |-> "parsing", success |-> TRUE, dom |-> NullPtr]
  /\ dom_call = NoDomCall

\* The token the reader reports next.
NextToken == reader.tokens[reader.pos]

Reading(tok) ==
  /\ reader.status = "parsing" /\ reader.success
  /\ reader.pos <= Len(reader.tokens)
  /\ NextToken.tok = tok

\* The state after a callback: the reader stops when it returns false.
Called(r) ==
  /\ heap' = r.heap
  /\ handler' = r.handler
  /\ reader' = [reader EXCEPT !.pos = @ + 1, !.success = r.ret,
                              !.status = IF r.crashed THEN "crashed" ELSE @]
  /\ UNCHANGED <<updVars, dom_call>>

OnScalar ==
  /\ Reading("Scalar")
  /\ \E ub \in UseAfterFree :
       Called(scalar_callback(heap, handler, NextToken.value.k, NextToken.value.v, ub))

OnStartObject ==
  /\ Reading("StartObject")
  /\ \E ub \in UseAfterFree : Called(StartObject(heap, handler, ub))

OnEndObject ==
  /\ Reading("EndObject")
  /\ \E ub \in UseAfterFree : Called(end_object_or_array(heap, handler, ub))

OnStartArray ==
  /\ Reading("StartArray")
  /\ \E ub \in UseAfterFree : Called(StartArray(heap, handler, ub))

OnEndArray ==
  /\ Reading("EndArray")
  /\ \E ub \in UseAfterFree : Called(end_object_or_array(heap, handler, ub))

OnKey ==
  /\ Reading("Key")
  /\ Called(Key(heap, handler, NextToken.name))

\* Json_dom::parse returns: the document of the handler when the reader
\* succeeded, NULL when a callback stopped it; the handler is destroyed,
\* and with it a document that was not released.
ParseReturn ==
  /\ reader.status = "parsing"
  /\ ~reader.success \/ reader.pos > Len(reader.tokens)
  /\ IF reader.success
     THEN /\ reader' = [reader EXCEPT !.status = "returned",
                                      !.dom = handler.m_dom_as_built]
          /\ handler' = [handler EXCEPT !.m_dom_as_built = NullPtr]
          /\ heap' = heap
     ELSE /\ reader' = [reader EXCEPT !.status = "returned", !.dom = NullPtr]
          /\ handler' = [handler EXCEPT !.m_dom_as_built = NullPtr]
          /\ heap' = delete_dom(heap, handler.m_dom_as_built)
  /\ UNCHANGED <<updVars, dom_call>>

NextParse ==
  \/ OnScalar \/ OnStartObject \/ OnEndObject \/ OnStartArray \/ OnEndArray
  \/ OnKey \/ ParseReturn

SpecParse == InitParse /\ [][NextParse]_vars

\* The members of an object text that are the first with their key.
FirstOccurrences(text) ==
  {i \in 1..Len(text.keys) : \A j \in 1..(i - 1) : text.keys[j] # text.keys[i]}

HasDuplicateKey(text) == FirstOccurrences(text) # 1..Len(text.keys)

\* The DOM of a text read as if every later occurrence of a key, with its
\* value, were not in the text: an object has the first member of each
\* key, in the order of the keys.
RECURSIVE FirstWinsDom(_)
FirstWinsDom(text) ==
  CASE text.k = "J_OBJECT" ->
         LET first == FirstOccurrences(text)
             rank(i) == 1 + Cardinality({j \in first : KeyLess(text.keys[j], text.keys[i])})
             at(p) == CHOOSE i \in first : rank(i) = p
         IN  JObject([p \in 1..Cardinality(first) |-> text.keys[at(p)]],
                     [p \in 1..Cardinality(first) |-> FirstWinsDom(text.kids[at(p)])])
    [] text.k = "J_ARRAY" ->
         JArray([i \in 1..Len(text.kids) |-> FirstWinsDom(text.kids[i])])
    [] OTHER -> text

\* Whether some object of the text has a key more than once.
RECURSIVE RepeatsKey(_)
RepeatsKey(text) ==
  \/ text.k = "J_OBJECT" /\ HasDuplicateKey(text)
  \/ \E i \in 1..Len(text.kids) : RepeatsKey(text.kids[i])

ParseEnded == reader.status \in {"returned", "crashed"}

\* C8: parsing a text in which an object key occurs more than once
\* succeeds and yields the DOM the text would yield without the later
\* occurrences of the key and their values, whether the later value is a
\* scalar, an object or an array, and whatever follows it.
C8_FirstKeyWins ==
  (ParseEnded /\ RepeatsKey(reader.input)) =>
    /\ reader.status = "returned"
    /\ reader.dom # NullPtr
    /\ HeapToDom(heap, reader.dom) = FirstWinsDom(reader.input)

\* The parse of {"a": 1, "a": {}} crashed.
C8_Witness ==
  /\ reader.status = "crashed"
  /\ reader.input = JObject(<<KeyA, KeyA>>, <<JInt(1), JObject(<<>>, <<>>)>>)

\* Whether some object of the text repeats a key with an object or an
\* array as the later value.
RECURSIVE RepeatsKeyWithContainer(_)
RepeatsKeyWithContainer(text) ==
  \/ /\ text.k = "J_OBJECT"
     /\ \E i \in (1..Len(text.keys)) \ FirstOccurrences(text) : IsContainer(text.kids[i])
  \/ \E i \in 1..Len(text.kids) : RepeatsKeyWithContainer(text.kids[i])

\* When every later occurrence of a key has a scalar value, the parse
\* returns the DOM of the first occurrences, and nothing else stays
\* allocated; a text without repeated keys yields its own DOM.
ParseScalarDuplicates ==
  (ParseEnded /\ ~RepeatsKeyWithContainer(reader.input)) =>
    /\ reader.status = "returned"
    /\ reader.dom # NullPtr
    /\ HeapToDom(heap, reader.dom) = FirstWinsDom(reader.input)
    /\ \A p \in 1..Len(heap) : heap[p].live <=> p \in Owned(heap, reader.dom)

\* Every run over a text in which the later occurrence of a key has an
\* object or an array as its value ends in a crash.
ParseContainerDuplicateCrashes ==
  (ParseEnded /\ RepeatsKeyWithContainer(reader.input)) => reader.status = "crashed"

(***************************************************************************)
(* Calls on DOMs: Json_object::add_alias and merge_doms on two DOMs that   *)
(* have been built on the heap, left and right.                            *)
(***************************************************************************)
KeyX == <<120>>

KeyY == <<121>>

\* The values of the members of the objects.
InnerDoms ==
  {JInt(1), JInt(3), JArray(<<JInt(2)>>), JObject(<<KeyX>>, <<JInt(1)>>),
   JObject(<<KeyY>>, <<JInt(2)>>)}

\* The DOMs the calls are made on: objects with members out of "a", "b"
\* and "b", "c", two arrays and a scalar.
Doms ==
  {JObject(<<>>, <<>>), JInt(1), JArray(<<JInt(1)>>),
   JArray(<<JInt(3), JArray(<<JInt(2)>>)>>)}
  \cup {JObject(<<k>>, <<v>>) : k \in {KeyA, KeyB}, v \in InnerDoms}
  \cup {JObject(<<KeyA, KeyB>>, <<v, w>>) : v \in InnerDoms, w \in InnerDoms}
  \cup {JObject(<<KeyB, KeyC>>, <<v, w>>) : v \in InnerDoms, w \in InnerDoms}

InitDom ==
  /\ NoUpdate
  /\ handler = NoHandler
  /\ reader = NoReader
  /\ \E l \in Doms, r \in Doms :
       LET a == alloc_dom(<<>>, l)
           b == alloc_dom(a.heap, r)
       IN  /\ heap = b.heap
           /\ dom_call = [NoDomCall EXCEPT !.left = a.ptr, !.right = b.ptr]

\* left->add_alias(name, right), for an object left.
AddAlias ==
  /\ dom_call.op = "none"
  /\ heap[dom_call.left].type = "J_OBJECT"
  /\ \E name \in {KeyA, KeyB, KeyC} :
       LET r == Json_object_add_alias(heap, dom_call.left, name, dom_call.right)
       IN  /\ heap' = r.heap
           /\ dom_call' = [dom_call EXCEPT !.op = "add_alias", !.name = name,
                                           !.ret = r.ret, !.before = heap]
  /\ UNCHANGED <<updVars, handler, reader>>

\* merge_doms(left, right).
MergeDoms ==
  /\ dom_call.op = "none"
  /\ LET r == merge_doms(heap, dom_call.left, dom_call.right)
     IN  /\ heap' = r.heap
         /\ dom_call' = [dom_call EXCEPT !.op = "merge_doms", !.merged = r.ptr,
                                         !.before = heap]
  /\ UNCHANGED <<updVars, handler, reader>>

NextDom == AddAlias \/ MergeDoms

SpecDom == InitDom /\ [][NextDom]_vars

\* The object, the key and the value of the observed add_alias call.
AddedTo == dom_call.left

AddedValue == dom_call.right

KeyWasPresent == KeyPos(dom_call.before[AddedTo].keys, dom_call.name) # 0

\* C9: add_alias(k, v) on an object that contains the key k leaves the keys
\* of the object and the value under k as they were, deletes v, and
\* returns false; when k is absent it adds the pair k -> v, makes the
\* object the parent of v, and the cardinality grows by one.
C9_AddAlias ==
  dom_call.op = "add_alias" =>
    LET before == dom_call.before
        old == before[AddedTo]
        new == heap[AddedTo]
        pos == KeyPos(new.keys, dom_call.name)
    IN  /\ dom_call.ret = FALSE
        /\ IF KeyWasPresent
           THEN /\ new.keys = old.keys
                /\ new.kids = old.kids
                /\ HeapToDom(heap, AddedTo) = HeapToDom(before, AddedTo)
                /\ \A p \in Owned(before, AddedValue) : ~heap[p].live
                /\ \A p \in Owned(heap, AddedTo) : heap[p].live
           ELSE /\ pos # 0
                /\ new.kids[pos] = AddedValue
                /\ heap[AddedValue].parent = AddedTo
                /\ HeapToDom(heap, AddedValue) = HeapToDom(before, AddedValue)
                /\ Len(new.kids) = Len(old.kids) + 1
                /\ RemoveAt(new.keys, pos) = old.keys
                /\ RemoveAt(new.kids, pos) = old.kids
                /\ \A i \in 1..(Len(new.keys) - 1) : KeyLess(new.keys[i], new.keys[i + 1])
                /\ \A p \in Owned(heap, AddedTo) : heap[p].live

\* An object was added under a key the object already had: it was deleted.
C9_Witness ==
  /\ dom_call.op = "add_alias"
  /\ KeyWasPresent
  /\ dom_call.before[AddedValue].type = "J_OBJECT"
  /\ Len(dom_call.before[AddedValue].kids) = 2
  /\ ~heap[AddedValue].live

\* The value of the member with the given key of an object value.
MemberOf(obj, name) == obj.kids[KeyPos(obj.keys, name)]

KeySet(obj) == {obj.keys[i] : i \in 1..Len(obj.keys)}

\* The keys of a set in the order of Json_key_comparator.
SortedKeys(S) ==
  [p \in 1..Cardinality(S) |->
     CHOOSE name \in S : Cardinality({other \in S : KeyLess(other, name)}) = p - 1]

\* The merge of two values as the specification states it: two objects
\* merge by key, the values of a key of both merged in turn; of any other
\* two values, those that are not arrays are wrapped in an array and the
\* arrays are concatenated.
AsArray(d) == IF d.k = "J_ARRAY" THEN d ELSE JArray(<<d>>)

RECURSIVE Merged(_, _)
Merged(l, r) ==
  IF l.k = "J_OBJECT" /\ r.k = "J_OBJECT"
  THEN LET ks == SortedKeys(KeySet(l) \cup KeySet(r))
       IN  JObject(ks,
                   [p \in 1..Len(ks) |->
                      IF ks[p] \in KeySet(l) /\ ks[p] \in KeySet(r)
                      THEN Merged(MemberOf(l, ks[p]), MemberOf(r, ks[p]))
                      ELSE IF ks[p] \in KeySet(l) THEN MemberOf(l, ks[p])
                      ELSE MemberOf(r, ks[p])])
  ELSE JArray(AsArray(l).kids \o AsArray(r).kids)

\* The two DOMs handed to merge_doms and the DOM it returned, as data.
MergeLeft == HeapToDom(dom_call.before, dom_call.left)

MergeRight == HeapToDom(dom_call.before, dom_call.right)

MergeResult == HeapToDom(heap, dom_call.merged)

\* C10: merge_doms of two objects returns an object whose key set is the
\* union of the key sets of the two; a key of one of them only keeps the
\* value it has there, and a key of both has the merge of its two values.
C10_MergeObjects ==
  (dom_call.op = "merge_doms" /\ MergeLeft.k = "J_OBJECT" /\ MergeRight.k = "J_OBJECT") =>
    /\ MergeResult.k = "J_OBJECT"
    /\ KeySet(MergeResult) = KeySet(MergeLeft) \cup KeySet(MergeRight)
    /\ Len(MergeResult.keys) = Cardinality(KeySet(MergeResult))
    /\ \A name \in KeySet(MergeResult) :
         MemberOf(MergeResult, name) =
           IF name \in KeySet(MergeLeft) /\ name \in KeySet(MergeRight)
           THEN Merged(MemberOf(MergeLeft, name), MemberOf(MergeRight, name))
           ELSE IF name \in KeySet(MergeLeft) THEN MemberOf(MergeLeft, name)
           ELSE MemberOf(MergeRight, name)
    /\ \A p \in Owned(heap, dom_call.merged) : heap[p].live

\* {"a": 1, "b": {"x": 1}} merged with {"b": {"y": 2}, "c": 3} gave
\* {"a": 1, "b": {"x": 1, "y": 2}, "c": 3}.
C10_Witness ==
  /\ dom_call.op = "merge_doms"
  /\ MergeLeft = JObject(<<KeyA, KeyB>>, <<JInt(1), JObject(<<KeyX>>, <<JInt(1)>>)>>)
  /\ MergeRight = JObject(<<KeyB, KeyC>>, <<JObject(<<KeyY>>, <<JInt(2)>>), JInt(3)>>)
  /\ MergeResult = JObject(<<KeyA, KeyB, KeyC>>,
                           <<JInt(1), JObject(<<KeyX, KeyY>>, <<JInt(1), JInt(2)>>),
                             JInt(3)>>)


\* The nodes of the heap that are allocated and not deleted.
LiveNodes(h) == {p \in 1..Len(h) : h[p].live}

\* The values a DOM gives to a merge with something that is not an object
\* on both sides: the cells of an array, anything else as one value.
Contribution(h, p) == IF h[p].type = "J_ARRAY" THEN h[p].kids ELSE <<p>>

\* C11: merge_doms(L, R) with L and R not both objects returns one array
\* that holds the elements of L in order (L itself as the only element
\* when L is not an array, an object included) followed by the elements of
\* R in order (R itself when R is not an array); its length is the sum of
\* the two, and both inputs are consumed: their values are in the result,
\* everything else of them is deleted.
C11_MergeArrays ==
  (dom_call.op = "merge_doms" /\ ~(MergeLeft.k = "J_OBJECT" /\ MergeRight.k = "J_OBJECT")) =>
    LET before == dom_call.before
        left_part == Contribution(before, dom_call.left)
        right_part == Contribution(before, dom_call.right)
    IN  /\ heap[dom_call.merged].type = "J_ARRAY"
        /\ heap[dom_call.merged].kids = left_part \o right_part
        /\ MergeResult = JArray(AsArray(MergeLeft).kids \o AsArray(MergeRight).kids)
        /\ Len(MergeResult.kids) = Len(AsArray(MergeLeft).kids) + Len(AsArray(MergeRight).kids)
        /\ \A i \in 1..Len(heap[dom_call.merged].kids) :
             heap[heap[dom_call.merged].kids[i]].parent = dom_call.merged
        /\ LiveNodes(heap) = Owned(heap, dom_call.merged)
        /\ MergeRight.k = "J_ARRAY" => ~heap[dom_call.right].live

\* {"a": 1} merged with [3, [2]] gave [{"a": 1}, 3, [2]].
C11_Witness ==
  /\ dom_call.op = "merge_doms"
  /\ MergeLeft = JObject(<<KeyA>>, <<JInt(1)>>)
  /\ MergeRight = JArray(<<JInt(3), JArray(<<JInt(2)>>)>>)
  /\ MergeResult = JArray(<<MergeLeft, JInt(3), JArray(<<JInt(2)>>)>>)

(***************************************************************************)
(* Sequences of calls on DOMs: the caller holds some DOMs (roots) and      *)
(* calls the mutators of Json_array and Json_object, clone and merge_doms  *)
(* on them.  A value handed to a container is a DOM of its own that does   *)
(* not hold the container; the call takes it over.                         *)
(***************************************************************************)
\* The DOMs the caller starts with, two at a time.
TreeDoms ==
  {JInt(1), JArray(<<JInt(1)>>), JObject(<<KeyA>>, <<JInt(1)>>),
   JArray(<<JObject(<<KeyA>>, <<JInt(2)>>)>>)}

RECURSIVE alloc_forest(_, _, _)
alloc_forest(h, forest, ptrs) ==
  IF forest = <<>> THEN [heap |-> h, roots |-> ptrs]
  ELSE alloc_forest(alloc_dom(h, Head(forest)).heap, Tail(forest),
                    ptrs \cup {Len(h) + 1})

InitTree ==
  /\ NoUpdate
  /\ handler = NoHandler
  /\ reader = NoReader
  /\ \E t1 \in TreeDoms, t2 \in TreeDoms :
       \E f \in {alloc_forest(<<>>, <<t1, t2>>, {})} :
         /\ heap = f.heap
         /\ dom_call = [NoDomCall EXCEPT !.roots = f.roots]

\* The live containers of a type, and the DOMs that can be handed to one.
Containers(type) == {p \in LiveNodes(heap) : heap[p].type = type}

ValuesFor(this) == {value \in dom_call.roots : this \notin Owned(heap, value)}

\* The state after a call on the container this that took over value.
TreeCalled(op, this, value, oldv, h, roots) ==
  /\ dom_call.calls < MaxOps
  /\ heap' = h
  /\ dom_call' = [dom_call EXCEPT !.op = op, !.left = this, !.right = value,
                                  !.merged = oldv, !.roots = roots,
                                  !.calls = @ + 1]
  /\ UNCHANGED <<updVars, handler, reader>>

ArrayInsertAlias ==
  \E this \in Containers("J_ARRAY"), index \in 0..2 :
    \E value \in ValuesFor(this) :
      TreeCalled("insert_alias", this, value, NullPtr,
                 Json_array_insert_alias(heap, this, index, value).heap,
                 dom_call.roots \ {value})

ArrayAppendAlias ==
  \E this \in Containers("J_ARRAY") :
    \E value \in ValuesFor(this) :
      TreeCalled("append_alias", this, value, NullPtr,
                 Json_array_append_alias(heap, this, value).heap,
                 dom_call.roots \ {value})

ArrayRemove ==
  \E this \in Containers("J_ARRAY"), index \in 0..2 :
    TreeCalled("array_remove", this, NullPtr, NullPtr,
               Json_array_remove(heap, this, index).heap, dom_call.roots)

ObjectAddAlias ==
  \E this \in Containers("J_OBJECT"), name \in {KeyA, KeyB} :
    \E value \in ValuesFor(this) :
      TreeCalled("add_alias", this, value, NullPtr,
                 Json_object_add_alias(heap, this, name, value).heap,
                 dom_call.roots \ {value})

ObjectRemove ==
  \E this \in Containers("J_OBJECT"), name \in {KeyA, KeyB} :
    TreeCalled("object_remove", this, NullPtr, NullPtr,
               Json_object_remove(heap, this, name).heap, dom_call.roots)

\* replace_dom_in_container(oldv, newv) takes newv over when it finds oldv.
ReplaceDomInContainer ==
  \E this \in Containers("J_ARRAY") \cup Containers("J_OBJECT") :
    \E newv \in ValuesFor(this), oldv \in LiveNodes(heap) \ {this} :
      /\ oldv \notin Owned(heap, newv)
      /\ TreeCalled("replace_dom_in_container", this, newv, oldv,
                    replace_dom_in_container(heap, this, oldv, newv),
                    IF \E i \in 1..Len(heap[this].kids) : heap[this].kids[i] = oldv
                    THEN dom_call.roots \ {newv} ELSE dom_call.roots)

\* clone() of any node gives the caller a new DOM.
Clone ==
  \E this \in LiveNodes(heap) :
    TreeCalled("clone", this, NullPtr, Len(heap) + 1,
                  Json_dom_clone(heap, this).heap,
                  dom_call.roots \cup {Len(heap) + 1})

\* merge_doms(left, right) of two DOMs of the caller.
MergeRoots ==
  \E left \in dom_call.roots :
    \E right \in dom_call.roots \ {left} :
    \E r \in {merge_doms(heap, left, right)} :
      TreeCalled("merge_doms", left, right, r.ptr, r.heap,
                 (dom_call.roots \ {left, right}) \cup {r.ptr})

NextTree ==
  \/ ArrayInsertAlias \/ ArrayAppendAlias \/ ArrayRemove
  \/ ObjectAddAlias \/ ObjectRemove
  \/ ReplaceDomInContainer \/ Clone \/ MergeRoots

SpecTree == InitTree /\ [][NextTree]_vars

\* The slots of the live containers: a container and a position in it.
Slots ==
  {s \in LiveNodes(heap) \X (1..Len(heap)) : s[2] <= Len(heap[s[1]].kids)}

Held(s) == heap[s[1]].kids[s[2]]

\* The live nodes no container holds.
TreeRoots == LiveNodes(heap) \ {Held(s) : s \in Slots}

\* C12: after any sequence of insert_alias, append_alias and remove on
\* arrays, add_alias and remove on objects, replace_dom_in_container,
\* clone and merge_doms, every node a container holds is a live node whose
\* parent pointer is that container, no node is held by two containers or
\* twice by one, and every root of a tree has a null parent; the roots are
\* the DOMs the caller holds.
C12_ParentPointers ==
  /\ \A s \in Slots :
       /\ Held(s) \in LiveNodes(heap)
       /\ heap[Held(s)].parent = s[1]
  /\ \A s \in Slots, t \in Slots : s # t => Held(s) # Held(t)
  /\ \A p \in TreeRoots : heap[p].parent = NullPtr
  /\ TreeRoots = dom_call.roots

\* A DOM replaced a value of an array after other calls: the value is
\* deleted and the array is the parent of the DOM.
C12_Witness ==
  /\ dom_call.op = "replace_dom_in_container"
  /\ dom_call.calls = MaxOps
  /\ heap[dom_call.left].type = "J_ARRAY"
  /\ ~heap[dom_call.merged].live
  /\ \E i \in 1..Len(heap[dom_call.left].kids) : heap[dom_call.left].kids[i] = dom_call.right
  /\ heap[dom_call.right].parent = dom_call.left
  /\ IsContainer(HeapToDom(heap, dom_call.right))

(***************************************************************************)
(* merge_doms on deep DOMs.                                                *)
(***************************************************************************)
\* The objects of a DOM of the given depth allocated after the first base
\* objects of the heap: containers of one type nested in one another
\* around the scalar 1, each the parent of the next; the objects nest
\* under the given key.
alloc_chain(type, name, depth, base) ==
  [j \in 1..depth |->
     [type |-> IF j < depth THEN type ELSE "J_INT",
      live |-> TRUE,
      parent |-> IF j = 1 THEN NullPtr ELSE base + j - 1,
      keys |-> IF j < depth /\ type = "J_OBJECT" THEN <<name>> ELSE <<>>,
      kids |-> IF j < depth THEN <<base + j + 1>> ELSE <<>>,
      v |-> IF j < depth THEN <<>> ELSE <<1>>]]

\* The depths of the DOMs: the smallest ones and those at the limit.
Depths ==
  {1, 2, 3, JSON_DOCUMENT_MAX_DEPTH - 2, JSON_DOCUMENT_MAX_DEPTH - 1,
   JSON_DOCUMENT_MAX_DEPTH}

\* The left DOM nests arrays or objects under "a", the right one arrays or
\* objects under "b".
InitDepth ==
  /\ NoUpdate
  /\ handler = NoHandler
  /\ reader = NoReader
  /\ \E lt \in {"J_ARRAY", "J_OBJECT"}, rt \in {"J_ARRAY", "J_OBJECT"} :
     \E ld \in Depths, rd \in Depths :
       /\ heap = alloc_chain(lt, KeyA, ld, 0) \o alloc_chain(rt, KeyB, rd, ld)
       /\ dom_call = [NoDomCall EXCEPT !.left = 1, !.right = ld + 1]

NextDepth == MergeDoms

SpecDepth == InitDepth /\ [][NextDepth]_vars

\* C13 as stated: merge_doms of two DOMs of depth at most 100 returns a
\* DOM of depth at most 100 or fails (returns NULL) with the
\* document-too-deep error; it never returns a DOM of depth 101 or more.
C13_MergeDepthLimit ==
  (/\ dom_call.op = "merge_doms"
   /\ Json_dom_depth(dom_call.before, dom_call.left) <= JSON_DOCUMENT_MAX_DEPTH
   /\ Json_dom_depth(dom_call.before, dom_call.right) <= JSON_DOCUMENT_MAX_DEPTH) =>
    \/ dom_call.merged = NullPtr
    \/ Json_dom_depth(heap, dom_call.merged) <= JSON_DOCUMENT_MAX_DEPTH

\* merge_doms of an object of depth 100 and an array returned an array of
\* depth 101.
C13_Witness ==
  /\ dom_call.op = "merge_doms"
  /\ dom_call.before[dom_call.left].type = "J_OBJECT"
  /\ Json_dom_depth(dom_call.before, dom_call.left) = JSON_DOCUMENT_MAX_DEPTH
  /\ dom_call.before[dom_call.right].type = "J_ARRAY"
  /\ dom_call.merged # NullPtr
  /\ Json_dom_depth(heap, dom_call.merged) = JSON_DOCUMENT_MAX_DEPTH + 1

\* What merge_doms does keep: it returns a DOM, and the DOM is at most one
\* deeper than the deeper of the two it was given.
MergeDepthGrowsByOne ==
  dom_call.op = "merge_doms" =>
    /\ dom_call.merged # NullPtr
    /\ LET l == Json_dom_depth(dom_call.before, dom_call.left)
           r == Json_dom_depth(dom_call.before, dom_call.right)
       IN  Json_dom_depth(heap, dom_call.merged) <= 1 + (IF l > r THEN l ELSE r)

(***************************************************************************)
(* Json_dom::parse on deeply nested texts.                                 *)
(***************************************************************************)
\* The tokens of a text of depth containers of one type nested in one
\* another, the objects under the key "a"; the innermost container is
\* empty or holds the scalar 1.
NestedArrayTokens(depth, scalar) ==
  [i \in 1..(2 * depth + (IF scalar THEN 1 ELSE 0)) |->
     IF i <= depth THEN Token("StartArray", <<>>, JNull)
     ELSE IF scalar /\ i = depth + 1 THEN Token("Scalar", <<>>, JInt(1))
     ELSE Token("EndArray", <<>>, JNull)]

NestedObjectTokens(depth, scalar) ==
  [i \in 1..(3 * depth - 1 + (IF scalar THEN 2 ELSE 0)) |->
     IF i <= 2 * depth - 1
     THEN IF i % 2 = 1 THEN Token("StartObject", <<>>, JNull)
          ELSE Token("Key", KeyA, JNull)
     ELSE IF scalar /\ i = 2 * depth THEN Token("Key", KeyA, JNull)
     ELSE IF scalar /\ i = 2 * depth + 1 THEN Token("Scalar", <<>>, JInt(1))
     ELSE Token("EndObject", <<>>, JNull)]

NestedTokens(text) ==
  IF text.type = "J_ARRAY" THEN NestedArrayTokens(text.depth, text.scalar)
  ELSE NestedObjectTokens(text.depth, text.scalar)

\* The numbers of nested containers: a few, and those around the limit.
NestingDepths ==
  {1, 2, JSON_DOCUMENT_MAX_DEPTH - 1, JSON_DOCUMENT_MAX_DEPTH,
   JSON_DOCUMENT_MAX_DEPTH + 1, JSON_DOCUMENT_MAX_DEPTH + 2}

DeepTexts ==
  [type : {"J_ARRAY", "J_OBJECT"}, depth : NestingDepths, scalar : BOOLEAN]

InitDeepParse ==
  /\ NoUpdate
  /\ heap = <<>>
  /\ handler = Rapid_json_handler
  /\ \E text \in DeepTexts :
       reader = [input |-> text, tokens |-> NestedTokens(text), pos |-> 1,
                 status |-> "parsing", success |-> TRUE, dom |-> NullPtr]
  /\ dom_call = NoDomCall

SpecDeepParse == InitDeepParse /\ [][NextParse]_vars

\* The nesting depth of the value that starts at token i of a text: one
\* more than the number of containers open before it.
ValueDepth(tokens, i) ==
  1 + Cardinality({j \in 1..(i - 1) : tokens[j].tok \in {"StartArray", "StartObject"}})
    - Cardinality({j \in 1..(i - 1) : tokens[j].tok \in {"EndArray", "EndObject"}})

\* The tokens that start a value, scalar or container, nested too deep.
TooDeep(tokens) ==
  {i \in 1..Len(tokens) :
     /\ tokens[i].tok \in {"StartArray", "StartObject", "Scalar"}
     /\ ValueDepth(tokens, i) > JSON_DOCUMENT_MAX_DEPTH}

FirstOf(S) == CHOOSE i \in S : \A j \in S : i <= j

\* C14: Json_dom::parse returns a DOM only for a text with no value, scalar
\* or container, nested deeper than 100, and the DOM it returns has a
\* depth() of at most 100; a text of the model with no such value parses;
\* the callback that stops the reader is the one of the first value nested
\* too deep (the 101st '[' of nested arrays) or of the key of that value.
C14_ParseDepthLimit ==
  /\ (reader.status = "returned" /\ reader.dom # NullPtr) =>
       /\ TooDeep(reader.tokens) = {}
       /\ Json_dom_depth(heap, reader.dom) <= JSON_DOCUMENT_MAX_DEPTH
  /\ (reader.status = "returned" /\ TooDeep(reader.tokens) = {}) =>
       reader.dom # NullPtr
  /\ (reader.status = "parsing" /\ ~reader.success) =>
       /\ TooDeep(reader.tokens) # {}
       /\ LET first == FirstOf(TooDeep(reader.tokens))
              seen == reader.pos - 1
          IN  IF reader.tokens[first - 1].tok = "Key" THEN seen = first - 1
              ELSE seen = first

\* The reader stopped at the 101st '[' of 101 nested empty arrays.
C14_Witness ==
  /\ reader.input = [type |-> "J_ARRAY", depth |-> JSON_DOCUMENT_MAX_DEPTH + 1,
                     scalar |-> FALSE]
  /\ reader.status = "parsing"
  /\ ~reader.success
  /\ reader.pos - 1 = JSON_DOCUMENT_MAX_DEPTH + 1
  /\ handler.m_depth = JSON_DOCUMENT_MAX_DEPTH + 1

\* 100 nested empty arrays parse to a DOM of depth 100.
ParsedAtTheLimit ==
  /\ reader.input = [type |-> "J_ARRAY", depth |-> JSON_DOCUMENT_MAX_DEPTH,
                     scalar |-> FALSE]
  /\ reader.status = "returned"
  /\ reader.dom # NullPtr
  /\ Json_dom_depth(heap, reader.dom) = JSON_DOCUMENT_MAX_DEPTH

(***************************************************************************)
(* Json_wrapper::to_string.  A text is a sequence of bytes.  The integers  *)
(* of the model fit in 32 bits.  A double and a decimal are held as a      *)
(* number of tenths, the decimal with its scale (0 or 1 digits after the   *)
(* point); a temporal value as its year, month, day, hour, minute, second  *)
(* and microseconds; an opaque value as its field type and its bytes.      *)
(***************************************************************************)
JUint(n) == [k |-> "J_UINT", v |-> <<n>>, keys |-> <<>>, kids |-> <<>>]

JDouble(tenths) == [k |-> "J_DOUBLE", v |-> <<tenths>>, keys |-> <<>>, kids |-> <<>>]

JDecimal(tenths, scale) ==
  [k |-> "J_DECIMAL", v |-> <<tenths, scale>>, keys |-> <<>>, kids |-> <<>>]

JOpaque(field_type, data) ==
  [k |-> "J_OPAQUE", v |-> <<field_type>> \o data, keys |-> <<>>, kids |-> <<>>]

JTemporal(type, t) == [k |-> type, v |-> t, keys |-> <<>>, kids |-> <<>>]

\* The decimal digits of a number that is not negative.
RECURSIVE Digits(_)
Digits(n) == IF n < 10 THEN <<48 + n>> ELSE Digits(n \div 10) \o <<48 + (n % 10)>>

\* The last width decimal digits of a number, with leading zeros.
RECURSIVE PaddedDigits(_, _)
PaddedDigits(n, width) ==
  IF width = 0 THEN <<>> ELSE PaddedDigits(n \div 10, width - 1) \o <<48 + (n % 10)>>

\* String::append_longlong and String::append_ulonglong.
append_longlong(n) == IF n < 0 THEN <<45>> \o Digits(-n) ELSE Digits(n)

append_ulonglong(n) == Digits(n)

\* my_gcvt(d, MY_GCVT_ARG_DOUBLE, ...): the shortest text that reads back
\* as the double; a double with no fraction prints as an integer.
my_gcvt(tenths) ==
  LET abs == IF tenths < 0 THEN -tenths ELSE tenths
  IN  (IF tenths < 0 THEN <<45>> ELSE <<>>) \o Digits(abs \div 10)
      \o (IF abs % 10 = 0 THEN <<>> ELSE <<46, 48 + (abs % 10)>>)

\* decimal2string(m, ptr, &length, 0, 0, 0): the digits of the decimal, with
\* as many digits after the point as its scale.
decimal2string(tenths, scale) ==
  LET abs == IF tenths < 0 THEN -tenths ELSE tenths
  IN  (IF tenths < 0 THEN <<45>> ELSE <<>>) \o Digits(abs \div 10)
      \o (IF scale = 0 THEN <<>> ELSE <<46, 48 + (abs % 10)>>)

\* my_TIME_to_str(&t, ptr, 6).
my_TIME_to_str(type, t) ==
  LET date == PaddedDigits(t[1], 4) \o <<45>> \o PaddedDigits(t[2], 2) \o <<45>>
              \o PaddedDigits(t[3], 2)
      time == PaddedDigits(t[4], 2) \o <<58>> \o PaddedDigits(t[5], 2) \o <<58>>
              \o PaddedDigits(t[6], 2) \o <<46>> \o PaddedDigits(t[7], 6)
  IN  CASE type = "J_DATE" -> date
        [] type = "J_TIME" -> time
        [] OTHER -> date \o <<32>> \o time

\* base64_encode: three bytes give four characters of the alphabet
\* A-Z a-z 0-9 + /, a last group of one or two bytes is padded with '='.
base64_char(x) ==
  CASE x < 26 -> 65 + x
    [] x < 52 -> 97 + (x - 26)
    [] x < 62 -> 48 + (x - 52)
    [] x = 62 -> 43
    [] OTHER -> 47

RECURSIVE base64_encode(_)
base64_encode(data) ==
  CASE Len(data) = 0 -> <<>>
    [] Len(data) = 1 ->
         <<base64_char(data[1] \div 4), base64_char((data[1] % 4) * 16), 61, 61>>
    [] Len(data) = 2 ->
         <<base64_char(data[1] \div 4),
           base64_char((data[1] % 4) * 16 + data[2] \div 16),
           base64_char((data[2] % 16) * 4), 61>>
    [] OTHER ->
         <<base64_char(data[1] \div 4),
           base64_char((data[1] % 4) * 16 + data[2] \div 16),
           base64_char((data[2] % 16) * 4 + data[3] \div 64),
           base64_char(data[3] % 64)>>
         \o base64_encode(SubSeq(data, 4, Len(data)))

\* _dig_vec_lower[x].
dig_vec_lower(x) == IF x < 10 THEN 48 + x ELSE 87 + x

\* What double_quote appends for one byte.  cptr[i] is a char: a byte with
\* bit 8 set is appended as it is.
quoted_char(c) ==
  CASE c \in {34, 92} -> <<92, c>>
    [] c = 8 -> <<92, 98>>
    [] c = 12 -> <<92, 102>>
    [] c = 10 -> <<92, 110>>
    [] c = 13 -> <<92, 114>>
    [] c = 9 -> <<92, 116>>
    [] c < 128 /\ c < 31 ->
         <<92, 117, 48, 48, dig_vec_lower(c \div 16), dig_vec_lower(c % 16)>>
    [] OTHER -> <<c>>

RECURSIVE quoted_chars(_, _)
quoted_chars(str, i) ==
  IF i > Len(str) THEN <<>> ELSE quoted_char(str[i]) \o quoted_chars(str, i + 1)

\* double_quote(cptr, length, buf).
double_quote(str) == <<34>> \o quoted_chars(str, 1) \o <<34>>

\* print_string(buffer, json_quoted, data, length).
print_string(json_quoted, data) == IF json_quoted THEN double_quote(data) ELSE data

\* single_quote(buffer, json_quoted).
single_quote(json_quoted) == IF json_quoted THEN <<34>> ELSE <<>>

\* wrapper_to_string(wr, buffer, json_quoted, false, func_name, depth) with
\* pretty off, for a DOM no deeper than the maximum: what it appends to
\* the buffer.
RECURSIVE wrapper_to_string(_, _)
RECURSIVE elements_to_string(_, _)
elements_to_string(wr, i) ==
  IF i > Len(wr.kids) THEN <<>>
  ELSE (IF i > 1 THEN <<44, 32>> ELSE <<>>)
       \o (IF wr.k = "J_OBJECT" THEN print_string(TRUE, wr.keys[i]) \o <<58, 32>>
           ELSE <<>>)
       \o wrapper_to_string(wr.kids[i], TRUE)
       \o elements_to_string(wr, i + 1)

wrapper_to_string(wr, json_quoted) ==
  CASE wr.k \in {"J_TIME", "J_DATE", "J_DATETIME", "J_TIMESTAMP"} ->
         single_quote(json_quoted) \o my_TIME_to_str(wr.k, wr.v)
         \o single_quote(json_quoted)
    [] wr.k = "J_ARRAY" -> <<91>> \o elements_to_string(wr, 1) \o <<93>>
    [] wr.k = "J_BOOLEAN" ->
         IF wr.v = <<1>> THEN <<116, 114, 117, 101>> ELSE <<102, 97, 108, 115, 101>>
    [] wr.k = "J_DECIMAL" -> decimal2string(wr.v[1], wr.v[2])
    [] wr.k = "J_DOUBLE" -> my_gcvt(wr.v[1])
    [] wr.k = "J_INT" -> append_longlong(wr.v[1])
    [] wr.k = "J_NULL" -> <<110, 117, 108, 108>>
    [] wr.k = "J_OBJECT" -> <<123>> \o elements_to_string(wr, 1) \o <<125>>
    [] wr.k = "J_OPAQUE" ->
         single_quote(json_quoted)
         \o <<98, 97, 115, 101, 54, 52, 58, 116, 121, 112, 101>>
         \o append_ulonglong(wr.v[1]) \o <<58>>
         \o base64_encode(SubSeq(wr.v, 2, Len(wr.v)))
         \o single_quote(json_quoted)
    [] wr.k = "J_STRING" -> print_string(json_quoted, wr.v)
    [] wr.k = "J_UINT" -> append_ulonglong(wr.v[1])

\* Json_wrapper::to_string(buffer, json_quoted, func_name).
Json_wrapper_to_string(wr, json_quoted) == wrapper_to_string(wr, json_quoted)

(***************************************************************************)
(* The reader of Json_dom::parse: it reads a text byte by byte by the      *)
(* grammar of JSON, reports each value, key and container to the handler   *)
(* as it meets it, and stops with a syntax error at the first byte the     *)
(* grammar does not allow.  The integers of the model fit in 32 bits: the  *)
(* reader reports them through Int and Uint.                               *)
(***************************************************************************)
\* The values the callbacks Null, Bool, Int, Uint, Double and String of
\* the handler construct.
Null_value == JNull

Bool_value(b) == JBool(b)

Int_value(i) == JInt(i)

Uint_value(u) == JInt(u)

Double_value(tenths) == JDouble(tenths)

String_value(str) == JString(str)

\* What the reader has reported up to a position of the text.
Parsed(tokens, pos) == [tokens |-> tokens, pos |-> pos, ok |-> TRUE]

Failed(tokens) ==
  [tokens |-> Append(tokens, Token("Error", <<>>, JNull)), pos |-> 0, ok |-> FALSE]

\* The byte at a position, 0 behind the end of the text.
At(text, i) == IF i <= Len(text) THEN text[i] ELSE 0

IsDigit(c) == c \in 48..57

RECURSIVE SkipWhitespace(_, _)
SkipWhitespace(text, i) ==
  IF At(text, i) \in {32, 9, 10, 13} THEN SkipWhitespace(text, i + 1) ELSE i

\* Whether the text has the word at the position.
HasLiteral(text, i, word) ==
  i + Len(word) - 1 <= Len(text) /\ SubSeq(text, i, i + Len(word) - 1) = word

\* The position behind the digits that start at a position.
RECURSIVE DigitsEnd(_, _)
DigitsEnd(text, i) == IF IsDigit(At(text, i)) THEN DigitsEnd(text, i + 1) ELSE i

\* The number the digits from one position to another stand for.
RECURSIVE DigitsValue(_, _, _)
DigitsValue(text, from, to) ==
  IF to < from THEN 0 ELSE DigitsValue(text, from, to - 1) * 10 + (text[to] - 48)

\* A number that starts at position i, its digits at position s: an integer
\* part, then a point and a fraction, of which the doubles of the model
\* keep the first digit.  The texts of the model have no exponents.
number_at(text, s, minus, int_end, tokens) ==
  IF At(text, int_end) = 46
  THEN IF ~IsDigit(At(text, int_end + 1)) THEN Failed(tokens)
       ELSE Parsed(Append(tokens,
                          Token("Scalar", <<>>,
                                Double_value((IF minus THEN -1 ELSE 1)
                                             * (DigitsValue(text, s, int_end - 1) * 10
                                                + (text[int_end + 1] - 48))))),
                   DigitsEnd(text, int_end + 1))
  ELSE Parsed(Append(tokens,
                     Token("Scalar", <<>>,
                           IF minus THEN Int_value(-DigitsValue(text, s, int_end - 1))
                           ELSE Uint_value(DigitsValue(text, s, int_end - 1)))),
              int_end)

read_number(text, s, minus, tokens) ==
  IF ~IsDigit(At(text, s)) THEN Failed(tokens)
  ELSE number_at(text, s, minus, IF text[s] = 48 THEN s + 1 ELSE DigitsEnd(text, s),
                 tokens)

\* The value of a hexadecimal digit, -1 for another byte.
HexValue(c) ==
  CASE c \in 48..57 -> c - 48
    [] c \in 97..102 -> c - 87
    [] c \in 65..70 -> c - 55
    [] OTHER -> -1

\* The bytes of a code point of the basic plane in UTF-8.
Utf8(code) ==
  CASE code < 128 -> <<code>>
    [] code < 2048 -> <<192 + (code \div 64), 128 + (code % 64)>>
    [] OTHER ->
         <<224 + (code \div 4096), 128 + ((code \div 64) % 64), 128 + (code % 64)>>

\* A string from behind its opening quote: the bytes up to the closing
\* quote with the escapes decoded.  A control character that is not
\* escaped is a syntax error.
RECURSIVE read_string(_, _, _)
read_escape(text, i, str) ==
  CASE At(text, i) \in {34, 92, 47} -> read_string(text, i + 1, Append(str, text[i]))
    [] At(text, i) = 98 -> read_string(text, i + 1, Append(str, 8))
    [] At(text, i) = 102 -> read_string(text, i + 1, Append(str, 12))
    [] At(text, i) = 110 -> read_string(text, i + 1, Append(str, 10))
    [] At(text, i) = 114 -> read_string(text, i + 1, Append(str, 13))
    [] At(text, i) = 116 -> read_string(text, i + 1, Append(str, 9))
    [] At(text, i) = 117 /\ \A j \in 1..4 : HexValue(At(text, i + j)) >= 0 ->
         read_string(text, i + 5,
                     str \o Utf8(HexValue(text[i + 1]) * 4096 + HexValue(text[i + 2]) * 256
                                 + HexValue(text[i + 3]) * 16 + HexValue(text[i + 4])))
    [] OTHER -> [str |-> str, pos |-> 0, ok |-> FALSE]

read_string(text, i, str) ==
  CASE i > Len(text) -> [str |-> str, pos |-> 0, ok |-> FALSE]
    [] i <= Len(text) /\ text[i] = 34 -> [str |-> str, pos |-> i + 1, ok |-> TRUE]
    [] i <= Len(text) /\ text[i] = 92 -> read_escape(text, i + 1, str)
    [] i <= Len(text) /\ text[i] < 32 -> [str |-> str, pos |-> 0, ok |-> FALSE]
    [] OTHER -> read_string(text, i + 1, Append(str, text[i]))

string_value(tokens, s) ==
  IF s.ok THEN Parsed(Append(tokens, Token("Scalar", <<>>, String_value(s.str))), s.pos)
  ELSE Failed(tokens)

\* A value, the elements of an array and the members of an object.
RECURSIVE value_at(_, _, _)
read_value(text, i, tokens) == value_at(text, SkipWhitespace(text, i), tokens)

RECURSIVE array_rest(_, _)
array_next(text, i, tokens) ==
  CASE At(text, i) = 44 -> array_rest(text, read_value(text, i + 1, tokens))
    [] At(text, i) = 93 -> Parsed(Append(tokens, Token("EndArray", <<>>, JNull)), i + 1)
    [] OTHER -> Failed(tokens)

array_rest(text, r) ==
  IF ~r.ok THEN r ELSE array_next(text, SkipWhitespace(text, r.pos), r.tokens)

array_start(text, i, tokens) ==
  IF At(text, i) = 93 THEN Parsed(Append(tokens, Token("EndArray", <<>>, JNull)), i + 1)
  ELSE array_rest(text, read_value(text, i, tokens))

RECURSIVE object_member(_, _, _)
object_next(text, i, tokens) ==
  CASE At(text, i) = 44 -> object_member(text, SkipWhitespace(text, i + 1), tokens)
    [] At(text, i) = 125 -> Parsed(Append(tokens, Token("EndObject", <<>>, JNull)), i + 1)
    [] OTHER -> Failed(tokens)

object_rest(text, r) ==
  IF ~r.ok THEN r ELSE object_next(text, SkipWhitespace(text, r.pos), r.tokens)

object_colon(text, i, tokens) ==
  IF At(text, i) # 58 THEN Failed(tokens)
  ELSE object_rest(text, read_value(text, i + 1, tokens))

object_key(text, tokens, s) ==
  IF ~s.ok THEN Failed(tokens)
  ELSE object_colon(text, SkipWhitespace(text, s.pos),
                    Append(tokens, Token("Key", s.str, JNull)))

object_member(text, i, tokens) ==
  IF At(text, i) # 34 THEN Failed(tokens)
  ELSE object_key(text, tokens, read_string(text, i + 1, <<>>))

object_start(text, i, tokens) ==
  IF At(text, i) = 125 THEN Parsed(Append(tokens, Token("EndObject", <<>>, JNull)), i + 1)
  ELSE object_member(text, i, tokens)

value_at(text, i, tokens) ==
  CASE HasLiteral(text, i, <<110, 117, 108, 108>>) ->
         Parsed(Append(tokens, Token("Scalar", <<>>, Null_value)), i + 4)
    [] HasLiteral(text, i, <<116, 114, 117, 101>>) ->
         Parsed(Append(tokens, Token("Scalar", <<>>, Bool_value(TRUE))), i + 4)
    [] HasLiteral(text, i, <<102, 97, 108, 115, 101>>) ->
         Parsed(Append(tokens, Token("Scalar", <<>>, Bool_value(FALSE))), i + 5)
    [] At(text, i) = 34 -> string_value(tokens, read_string(text, i + 1, <<>>))
    [] At(text, i) = 91 ->
         array_start(text, SkipWhitespace(text, i + 1),
                     Append(tokens, Token("StartArray", <<>>, JNull)))
    [] At(text, i) = 123 ->
         object_start(text, SkipWhitespace(text, i + 1),
                      Append(tokens, Token("StartObject", <<>>, JNull)))
    [] At(text, i) = 45 -> read_number(text, i + 1, TRUE, tokens)
    [] IsDigit(At(text, i)) -> read_number(text, i, FALSE, tokens)
    [] OTHER -> Failed(tokens)

\* A text is one value with nothing but whitespace behind it.
document_end(text, r) ==
  IF r.ok /\ SkipWhitespace(text, r.pos) <= Len(text) THEN Failed(r.tokens).tokens
  ELSE r.tokens

\* reader.Parse(ss, handler): what the reader reports for a text, with
\* Error as the last token when the text has a syntax error.
Reader_Parse(text) == document_end(text, read_value(text, 1, <<>>))

(***************************************************************************)
(* Json_wrapper::to_string of a DOM, and Json_dom::parse of the text.      *)
(***************************************************************************)
\* The scalars of the round trip: every kind of scalar, the numbers with
\* and without a fraction, and strings with bytes that double_quote
\* escapes, with 0x1e and with 0x1f.
TextScalars ==
  {JNull, JBool(TRUE), JBool(FALSE), JInt(-12), JInt(7), JString(<<>>),
   JString(<<97, 98>>), JString(<<34, 92, 10>>), JString(<<30>>)}

OtherScalars ==
  {JUint(7), JDouble(15), JDouble(-20), JDecimal(25, 1), JDecimal(30, 0),
   JString(<<31>>), JOpaque(15, <<1, 2>>),
   JTemporal("J_DATE", <<2015, 1, 15, 0, 0, 0, 0>>),
   JTemporal("J_TIME", <<0, 0, 0, 10, 20, 30, 5>>),
   JTemporal("J_DATETIME", <<2015, 1, 15, 10, 20, 30, 0>>),
   JTemporal("J_TIMESTAMP", <<2015, 1, 15, 10, 20, 30, 0>>)}

RoundTripScalars == TextScalars \cup OtherScalars

\* Scalars, arrays and objects of scalars, an object with a key that
\* double_quote escapes and one with the key 0x1f, and containers nested in
\* containers.
RoundTripDoms ==
  RoundTripScalars
  \cup {JArray(<<>>), JObject(<<>>, <<>>)}
  \cup {JArray(<<s>>) : s \in RoundTripScalars}
  \cup {JObject(<<KeyA>>, <<s>>) : s \in RoundTripScalars}
  \cup {JArray(<<JInt(7), s>>) : s \in TextScalars}
  \cup {JObject(<<KeyA, KeyB>>, <<s, JArray(<<s>>)>>) : s \in TextScalars}
  \cup {JObject(<<<<34>>>>, <<JInt(7)>>), JObject(<<<<31>>>>, <<JInt(7)>>),
        JArray(<<JObject(<<KeyA>>, <<JArray(<<>>)>>), JObject(<<>>, <<>>)>>)}

InitRoundTrip ==
  /\ NoUpdate
  /\ handler = NoHandler
  /\ reader = NoReader
  /\ \E dom \in RoundTripDoms :
     \E a \in {alloc_dom(<<>>, dom)} :
       /\ heap = a.heap
       /\ dom_call = [NoDomCall EXCEPT !.left = a.ptr]

\* Json_wrapper(left).to_string(buffer, json_quoted, func_name), and the
\* call of Json_dom::parse on the text of the buffer.
ToStringAndParse ==
  /\ dom_call.op = "none"
  /\ \E json_quoted \in BOOLEAN :
     \E text \in {Json_wrapper_to_string(HeapToDom(heap, dom_call.left), json_quoted)} :
       reader' = [input |-> text, tokens |-> Reader_Parse(text), pos |-> 1,
                  status |-> "parsing", success |-> TRUE, dom |-> NullPtr]
  /\ handler' = Rapid_json_handler
  /\ dom_call' = [dom_call EXCEPT !.op = "to_string"]
  /\ UNCHANGED <<updVars, heap>>

\* The reader found a syntax error: reader.Parse returns false.
OnSyntaxError ==
  /\ Reading("Error")
  /\ reader' = [reader EXCEPT !.pos = @ + 1, !.success = FALSE]
  /\ UNCHANGED <<updVars, heap, handler, dom_call>>

NextRoundTrip == ToStringAndParse \/ NextParse \/ OnSyntaxError

SpecRoundTrip == InitRoundTrip /\ [][NextRoundTrip]_vars

\* The DOM to_string was called on, and the DOM parse returned.
Original == HeapToDom(heap, dom_call.left)

Reparsed == HeapToDom(heap, reader.dom)

\* C15 as stated: parsing the text of Json_wrapper::to_string succeeds and
\* yields a DOM equal to the original, with the same kind and value at
\* every node.
C15_RoundTrip ==
  reader.status = "returned" =>
    /\ reader.dom # NullPtr
    /\ Reparsed = Original

\* The parse of the quoted text of the string with the byte 0x1f failed.
C15_Witness ==
  /\ reader.status = "returned"
  /\ Original = JString(<<31>>)
  /\ reader.input = <<34, 31, 34>>
  /\ reader.dom = NullPtr

\* What the parse of the text of a DOM yields: a temporal and an opaque
\* value the string of its text, an unsigned integer a signed one, a
\* decimal a double, and a double or decimal with no fraction an integer.
RECURSIVE AsParsed(_)
AsParsed(d) ==
  CASE d.k \in {"J_DATE", "J_TIME", "J_DATETIME", "J_TIMESTAMP", "J_OPAQUE"} ->
         JString(wrapper_to_string(d, FALSE))
    [] d.k = "J_UINT" -> JInt(d.v[1])
    [] d.k = "J_DOUBLE" -> IF d.v[1] % 10 = 0 THEN JInt(d.v[1] \div 10) ELSE d
    [] d.k = "J_DECIMAL" ->
         IF d.v[2] = 0 THEN JInt(d.v[1] \div 10) ELSE JDouble(d.v[1])
    [] OTHER -> [d EXCEPT !.kids = [i \in 1..Len(d.kids) |-> AsParsed(d.kids[i])]]

\* Whether a string or a key of the DOM has a byte that double_quote
\* leaves unescaped and the reader rejects.
RECURSIVE HasRawControl(_)
HasRawControl(d) ==
  \/ d.k = "J_STRING" /\ \E i \in 1..Len(d.v) : d.v[i] = 31
  \/ \E i \in 1..Len(d.keys) : \E j \in 1..Len(d.keys[i]) : d.keys[i][j] = 31
  \/ \E i \in 1..Len(d.kids) : HasRawControl(d.kids[i])

\* The text with the strings quoted.
Quoted == reader.input = Json_wrapper_to_string(Original, TRUE)

\* What does hold of the round trip: the quoted text of a DOM with no
\* byte 0x1f in its strings and keys parses to the DOM with the kinds
\* that a text has; the text of a DOM with such a byte does not parse.
RoundTripAsParsed ==
  (reader.status = "returned" /\ Quoted) =>
    IF HasRawControl(Original) THEN reader.dom = NullPtr
    ELSE reader.dom # NullPtr /\ Reparsed = AsParsed(Original)

\* The round trip of the DOMs of NULL, BOOL, INT, STRING, ARRAY and OBJECT
\* values without the byte 0x1f gives the DOM back.
RECURSIVE HasTextKinds(_)
HasTextKinds(d) ==
  /\ d.k \in {"J_NULL", "J_BOOLEAN", "J_INT", "J_STRING", "J_ARRAY", "J_OBJECT"}
  /\ \A i \in 1..Len(d.kids) : HasTextKinds(d.kids[i])

RoundTripOfTextKinds ==
  (reader.status = "returned" /\ Quoted /\ HasTextKinds(Original)
   /\ ~HasRawControl(Original)) =>
    reader.dom # NullPtr /\ Reparsed = Original

\* The kinds that change: the parse of the text of the unsigned integer 7
\* returned the signed integer 7, and that of a date a string.
UintReparsedAsInt ==
  /\ reader.status = "returned"
  /\ Original = JUint(7)
  /\ reader.dom # NullPtr
  /\ Reparsed = JInt(7)

DateReparsedAsString ==
  /\ reader.status = "returned"
  /\ Original.k = "J_DATE"
  /\ reader.dom # NullPtr
  /\ Reparsed = JString(<<50, 48, 49, 53, 45, 48, 49, 45, 49, 53>>)

(***************************************************************************)
(* Json_wrapper::compare.  The doubles and the decimals of the model are   *)
(* numbers of tenths that a double holds exactly, so that the conversions  *)
(* between integers, doubles and decimals lose nothing.                    *)
(***************************************************************************)
\* compare_numbers(val1, val2).
compare_numbers(val1, val2) == IF val1 < val2 THEN -1 ELSE IF val1 = val2 THEN 0 ELSE 1

\* The first of two results of a comparison that is not 0.
FirstDifference(cmp, rest) == IF cmp # 0 THEN cmp ELSE rest

\* memcmp(str1, str2, n): the difference of the first two bytes that
\* differ, as unsigned chars.
RECURSIVE memcmp_from(_, _, _, _)
memcmp_from(str1, str2, n, i) ==
  IF i > n THEN 0
  ELSE IF str1[i] # str2[i] THEN str1[i] - str2[i]
  ELSE memcmp_from(str1, str2, n, i + 1)

memcmp(str1, str2, n) == memcmp_from(str1, str2, n, 1)

\* compare_json_strings(str1, str1_len, str2, str2_len).
compare_json_strings(str1, str2) ==
  FirstDifference(memcmp(str1, str2, Min(Len(str1), Len(str2))),
                  compare_numbers(Len(str1), Len(str2)))

\* my_decimal_cmp, my_decimal_is_zero and my_decimal::sign on the tenths
\* of a decimal; longlong2decimal, ulonglong2decimal and double2decimal
\* give the tenths of their argument.
my_decimal_cmp(a, b) == compare_numbers(a, b)

longlong2decimal(b) == b * 10

double2decimal(b) == b

\* compare_json_decimal_double(a, b).
compare_json_decimal_double(a, b) ==
  IF (a < 0) # (b < 0) THEN (IF a < 0 THEN -1 ELSE 1)
  ELSE IF a = 0 THEN (IF b = 0 THEN 0 ELSE -1)
  ELSE IF b = 0 THEN 1
  ELSE my_decimal_cmp(a, double2decimal(b))

\* compare_json_decimal_int(a, b).
compare_json_decimal_int(a, b) ==
  IF a = 0 THEN (IF b = 0 THEN 0 ELSE IF b > 0 THEN -1 ELSE 1)
  ELSE IF b = 0 THEN (IF a < 0 THEN -1 ELSE 1)
  ELSE IF (a < 0) # (b < 0) THEN (IF b < 0 THEN 1 ELSE -1)
  ELSE my_decimal_cmp(a, longlong2decimal(b))

\* compare_json_decimal_uint(a, b).
compare_json_decimal_uint(a, b) ==
  IF a = 0 THEN (IF b = 0 THEN 0 ELSE -1)
  ELSE IF a < 0 THEN -1
  ELSE IF b = 0 THEN 1
  ELSE my_decimal_cmp(a, longlong2decimal(b))

\* compare_json_double_int(a, b) and compare_json_double_uint(a, b): b as
\* a double, and when the doubles are equal the exact values.
compare_json_double_int(a, b) ==
  IF a < b * 10 THEN -1
  ELSE IF a > b * 10 THEN 1
  ELSE -compare_json_decimal_double(longlong2decimal(b), a)

compare_json_double_uint(a, b) ==
  IF a < b * 10 THEN -1
  ELSE IF a > b * 10 THEN 1
  ELSE -compare_json_decimal_double(longlong2decimal(b), a)

\* compare_json_int_uint(a, b).
compare_json_int_uint(a, b) == IF a < 0 THEN -1 ELSE compare_numbers(a, b)

\* enum_json_type, in its order.
enum_json_type ==
  <<"J_NULL", "J_DECIMAL", "J_INT", "J_UINT", "J_DOUBLE", "J_STRING", "J_OBJECT",
    "J_ARRAY", "J_BOOLEAN", "J_DATE", "J_TIME", "J_DATETIME", "J_TIMESTAMP",
    "J_OPAQUE", "J_ERROR">>

TypeIndex(type) == CHOOSE i \in 1..Len(enum_json_type) : enum_json_type[i] = type

\* type_comparison with the DATE row saying that a date is less than a
\* boolean.
type_comparison_date_first ==
  <<<<0, -1, -1, -1, -1, -1, -1, -1, -1, -1, -1, -1, -1, -1, -1>>,
    <<1, 0, 0, 0, 0, -1, -1, -1, -1, -1, -1, -1, -1, -1, -1>>,
    <<1, 0, 0, 0, 0, -1, -1, -1, -1, -1, -1, -1, -1, -1, -1>>,
    <<1, 0, 0, 0, 0, -1, -1, -1, -1, -1, -1, -1, -1, -1, -1>>,
    <<1, 0, 0, 0, 0, -1, -1, -1, -1, -1, -1, -1, -1, -1, -1>>,
    <<1, 1, 1, 1, 1, 0, -1, -1, -1, -1, -1, -1, -1, -1, -1>>,
    <<1, 1, 1, 1, 1, 1, 0, -1, -1, -1, -1, -1, -1, -1, -1>>,
    <<1, 1, 1, 1, 1, 1, 1, 0, -1, -1, -1, -1, -1, -1, -1>>,
    <<1, 1, 1, 1, 1, 1, 1, 1, 0, -1, -1, -1, -1, -1, -1>>,
    <<1, 1, 1, 1, 1, 1, 1, 1, -1, 0, -1, -1, -1, -1, -1>>,
    <<1, 1, 1, 1, 1, 1, 1, 1, 1, 1, 0, -1, -1, -1, -1>>,
    <<1, 1, 1, 1, 1, 1, 1, 1, 1, 1, 1, 0, 0, -1, -1>>,
    <<1, 1, 1, 1, 1, 1, 1, 1, 1, 1, 1, 0, 0, -1, -1>>,
    <<1, 1, 1, 1, 1, 1, 1, 1, 1, 1, 1, 1, 1, 0, -1>>,
    <<1, 1, 1, 1, 1, 1, 1, 1, 1, 1, 1, 1, 1, 1, 1>>>>

\* type_comparison[type_of_a][type_of_b].
type_comparison ==
  <<<<0, -1, -1, -1, -1, -1, -1, -1, -1, -1, -1, -1, -1, -1, -1>>,
    <<1, 0, 0, 0, 0, -1, -1, -1, -1, -1, -1, -1, -1, -1, -1>>,
    <<1, 0, 0, 0, 0, -1, -1, -1, -1, -1, -1, -1, -1, -1, -1>>,
    <<1, 0, 0, 0, 0, -1, -1, -1, -1, -1, -1, -1, -1, -1, -1>>,
    <<1, 0, 0, 0, 0, -1, -1, -1, -1, -1, -1, -1, -1, -1, -1>>,
    <<1, 1, 1, 1, 1, 0, -1, -1, -1, -1, -1, -1, -1, -1, -1>>,
    <<1, 1, 1, 1, 1, 1, 0, -1, -1, -1, -1, -1, -1, -1, -1>>,
    <<1, 1, 1, 1, 1, 1, 1, 0, -1, -1, -1, -1, -1, -1, -1>>,
    <<1, 1, 1, 1, 1, 1, 1, 1, 0, -1, -1, -1, -1, -1, -1>>,
    <<1, 1, 1, 1, 1, 1, 1, 1, 1, 0, -1, -1, -1, -1, -1>>,
    <<1, 1, 1, 1, 1, 1, 1, 1, 1, 1, 0, -1, -1, -1, -1>>,
    <<1, 1, 1, 1, 1, 1, 1, 1, 1, 1, 1, 0, 0, -1, -1>>,
    <<1, 1, 1, 1, 1, 1, 1, 1, 1, 1, 1, 0, 0, -1, -1>>,
    <<1, 1, 1, 1, 1, 1, 1, 1, 1, 1, 1, 1, 1, 0, -1>>,
    <<1, 1, 1, 1, 1, 1, 1, 1, 1, 1, 1, 1, 1, 1, 1>>>>

\* TIME_to_longlong_packed(&t): the fields of the packed value from the
\* most to the least significant.
TIME_to_longlong_packed(t) == <<t[1] * 13 + t[2], t[3], t[4], t[5], t[6], t[7]>>

\* compare_numbers on two packed values.
RECURSIVE compare_packed(_, _, _)
compare_packed(a, b, i) ==
  IF i > Len(a) THEN 0
  ELSE FirstDifference(compare_numbers(a[i], b[i]), compare_packed(a, b, i + 1))

\* Json_wrapper::compare(other), on the values of the two wrappers.
RECURSIVE Json_wrapper_compare(_, _)
RECURSIVE compare_elements(_, _, _)
compare_elements(a, b, i) ==
  IF i > Min(Len(a.kids), Len(b.kids)) THEN compare_numbers(Len(a.kids), Len(b.kids))
  ELSE FirstDifference(Json_wrapper_compare(a.kids[i], b.kids[i]),
                       compare_elements(a, b, i + 1))

RECURSIVE compare_members(_, _, _)
compare_members(a, b, i) ==
  IF i > Len(a.kids) THEN 0
  ELSE FirstDifference(compare_json_strings(a.keys[i], b.keys[i]),
         FirstDifference(Json_wrapper_compare(a.kids[i], b.kids[i]),
                         compare_members(a, b, i + 1)))

compare_values(a, b) ==
  CASE a.k = "J_ARRAY" -> compare_elements(a, b, 1)
    [] a.k = "J_OBJECT" ->
         FirstDifference(compare_numbers(Len(a.kids), Len(b.kids)),
                         compare_members(a, b, 1))
    [] a.k = "J_STRING" -> compare_json_strings(a.v, b.v)
    [] a.k = "J_INT" ->
         (CASE b.k = "J_INT" -> compare_numbers(a.v[1], b.v[1])
           [] b.k = "J_UINT" -> compare_json_int_uint(a.v[1], b.v[1])
           [] b.k = "J_DOUBLE" -> -compare_json_double_int(b.v[1], a.v[1])
           [] b.k = "J_DECIMAL" -> -compare_json_decimal_int(b.v[1], a.v[1]))
    [] a.k = "J_UINT" ->
         (CASE b.k = "J_UINT" -> compare_numbers(a.v[1], b.v[1])
           [] b.k = "J_INT" -> -compare_json_int_uint(b.v[1], a.v[1])
           [] b.k = "J_DOUBLE" -> -compare_json_double_uint(b.v[1], a.v[1])
           [] b.k = "J_DECIMAL" -> -compare_json_decimal_uint(b.v[1], a.v[1]))
    [] a.k = "J_DOUBLE" ->
         (CASE b.k = "J_DOUBLE" -> compare_numbers(a.v[1], b.v[1])
           [] b.k = "J_INT" -> compare_json_double_int(a.v[1], b.v[1])
           [] b.k = "J_UINT" -> compare_json_double_uint(a.v[1], b.v[1])
           [] b.k = "J_DECIMAL" -> -compare_json_decimal_double(b.v[1], a.v[1]))
    [] a.k = "J_DECIMAL" ->
         (CASE b.k = "J_DECIMAL" ->
                IF a.v[1] = 0 /\ b.v[1] = 0 THEN 0 ELSE my_decimal_cmp(a.v[1], b.v[1])
           [] b.k = "J_INT" -> compare_json_decimal_int(a.v[1], b.v[1])
           [] b.k = "J_UINT" -> compare_json_decimal_uint(a.v[1], b.v[1])
           [] b.k = "J_DOUBLE" -> compare_json_decimal_double(a.v[1], b.v[1]))
    [] a.k = "J_BOOLEAN" -> compare_numbers(a.v[1], b.v[1])
    [] a.k \in {"J_DATETIME", "J_TIMESTAMP", "J_TIME", "J_DATE"} ->
         compare_packed(TIME_to_longlong_packed(a.v), TIME_to_longlong_packed(b.v), 1)
    [] a.k = "J_OPAQUE" ->
         FirstDifference(compare_numbers(a.v[1], b.v[1]),
                         compare_json_strings(SubSeq(a.v, 2, Len(a.v)),
                                              SubSeq(b.v, 2, Len(b.v))))
    [] a.k = "J_NULL" -> 0

Json_wrapper_compare(a, b) ==
  FirstDifference(type_comparison[TypeIndex(a.k)][TypeIndex(b.k)], compare_values(a, b))

\* The values compared: every kind, numbers of the four kinds with equal
\* and with different values, strings of which one extends another, and
\* arrays and objects of them.
CompareScalars ==
  {JNull, JBool(FALSE), JBool(TRUE),
   JInt(-3), JInt(0), JInt(2), JUint(0), JUint(2), JUint(5),
   JDouble(-30), JDouble(0), JDouble(15), JDouble(20),
   JDecimal(-30, 0), JDecimal(0, 0), JDecimal(15, 1), JDecimal(20, 0),
   JString(<<>>), JString(<<97>>), JString(<<97, 0>>), JString(<<97, 98>>),
   JString(<<98>>), JString(<<200>>),
   JOpaque(15, <<1>>), JOpaque(15, <<1, 2>>), JOpaque(16, <<>>),
   JTemporal("J_DATE", <<2015, 1, 15, 0, 0, 0, 0>>),
   JTemporal("J_DATE", <<2014, 12, 31, 0, 0, 0, 0>>),
   JTemporal("J_TIME", <<0, 0, 0, 10, 20, 30, 5>>),
   JTemporal("J_TIME", <<0, 0, 0, 10, 20, 30, 0>>),
   JTemporal("J_DATETIME", <<2015, 1, 15, 10, 20, 30, 0>>),
   JTemporal("J_DATETIME", <<2015, 1, 15, 10, 20, 31, 0>>),
   JTemporal("J_TIMESTAMP", <<2015, 1, 15, 10, 20, 30, 0>>),
   JTemporal("J_TIMESTAMP", <<2015, 1, 14, 23, 59, 59, 999999>>)}

InnerValues == {JInt(2), JUint(2), JString(<<97>>), JBool(TRUE), JNull}

CompareValues ==
  CompareScalars
  \cup {JArray(<<>>), JObject(<<>>, <<>>)}
  \cup {JArray(<<x>>) : x \in InnerValues}
  \cup {JArray(<<JInt(2), x>>) : x \in InnerValues}
  \cup {JObject(<<KeyA>>, <<x>>) : x \in InnerValues}
  \cup {JObject(<<KeyB>>, <<x>>) : x \in InnerValues}
  \cup {JObject(<<KeyA, KeyB>>, <<JInt(2), x>>) : x \in InnerValues}
  \cup {JArray(<<JArray(<<JInt(2)>>)>>), JArray(<<JObject(<<KeyA>>, <<JInt(2)>>)>>),
        JObject(<<KeyA>>, <<JArray(<<JInt(2)>>)>>),
        JObject(<<KeyA>>, <<JObject(<<KeyA>>, <<JUint(2)>>)>>)}

InitCompare ==
  /\ NoUpdate
  /\ handler = NoHandler
  /\ reader = NoReader
  /\ \E a \in CompareValues, b \in CompareValues :
     \E l \in {alloc_dom(<<>>, a)} :
     \E r \in {alloc_dom(l.heap, b)} :
       /\ heap = r.heap
       /\ dom_call = [NoDomCall EXCEPT !.left = l.ptr, !.right = r.ptr]

\* Json_wrapper(left).compare(Json_wrapper(right)) and
\* Json_wrapper(right).compare(Json_wrapper(left)).
Compare ==
  /\ dom_call.op = "none"
  /\ dom_call' =
       [dom_call EXCEPT
          !.op = "compare",
          !.out = <<Json_wrapper_compare(HeapToDom(heap, dom_call.left),
                                         HeapToDom(heap, dom_call.right)),
                    Json_wrapper_compare(HeapToDom(heap, dom_call.right),
                                         HeapToDom(heap, dom_call.left))>>]
  /\ UNCHANGED <<updVars, heap, handler, reader>>

NextCompare == Compare

SpecCompare == InitCompare /\ [][NextCompare]_vars

\* C16: compare(a, b) = -compare(b, a) for all values a and b of the 14
\* kinds, and exactly one of a < b, a = b and a > b holds, where a < b
\* is compare(a, b) < 0, a > b is compare(b, a) < 0 and a = b is that
\* both calls return 0.
C16_CompareAntisymmetric ==
  dom_call.op = "compare" =>
    /\ dom_call.out[1] = -dom_call.out[2]
    /\ Cardinality({c \in {"less", "equal", "greater"} :
                      \/ c = "less" /\ dom_call.out[1] < 0
                      \/ c = "equal" /\ dom_call.out[1] = 0 /\ dom_call.out[2] = 0
                      \/ c = "greater" /\ dom_call.out[2] < 0}) = 1

\* A date was compared with a boolean: the date is the greater one in
\* both directions of the call.
C16_Witness ==
  /\ dom_call.op = "compare"
  /\ heap[dom_call.left].type = "J_DATE"
  /\ heap[dom_call.right].type = "J_BOOLEAN"
  /\ dom_call.out = <<1, -1>>

(***************************************************************************)
(* Json_wrapper::make_sort_key.  A Wrapper_sort_key is the bytes written   *)
(* to the buffer so far (m_pos is their number) and the length of the      *)
(* buffer.  The numbers of the model print without an exponent; the keys   *)
(* of temporal values are not modelled.                                    *)
(***************************************************************************)
JSON_KEY_NULL == 0

JSON_KEY_NUMBER_NEG == 1

JSON_KEY_NUMBER_ZERO == 2

JSON_KEY_NUMBER_POS == 3

JSON_KEY_STRING == 4

JSON_KEY_OBJECT == 5

JSON_KEY_ARRAY == 6

JSON_KEY_FALSE == 7

JSON_KEY_TRUE == 8

JSON_KEY_OPAQUE == 12

VARLEN_PREFIX == 4

\* std::max(DBL_DIG, DECIMAL_MAX_POSSIBLE_PRECISION) + VARLEN_PREFIX + 3.
MAX_NUMBER_SORT_PAD == 81 + VARLEN_PREFIX + 3

Wrapper_sort_key(len) == [m_buffer |-> <<>>, m_length |-> len]

remaining(sk) == sk.m_length - Len(sk.m_buffer)

\* Wrapper_sort_key::append(ch).
key_append(sk, ch) ==
  IF Len(sk.m_buffer) < sk.m_length THEN [sk EXCEPT !.m_buffer = Append(@, ch)]
  ELSE sk

\* The same byte a number of times.
Fill(ch, n) == [i \in 1..n |-> ch]

\* Wrapper_sort_key::pad_till(pad_character, pos).  A negative num_chars
\* becomes a large size_t, and the padding then fills what remains.
pad_till(sk, pad_character, pos) ==
  [sk EXCEPT !.m_buffer =
     @ \o Fill(pad_character,
               IF pos - Len(sk.m_buffer) < 0 THEN remaining(sk)
               ELSE Min(remaining(sk), pos - Len(sk.m_buffer)))]

\* int2store and int4store: the bytes of a 16-bit and of a 32-bit value,
\* the least significant first.
int2store(v) == <<((v + 65536) % 65536) % 256, ((v + 65536) % 65536) \div 256>>

int4store(v) == <<v % 256, (v \div 256) % 256, (v \div 65536) % 256, v \div 16777216>>

\* copy_integer<false>(to, to_length, from, from_length, is_unsigned): the
\* to_length most significant bytes of from, the most significant first,
\* with the sign bit of a signed value turned.
copy_integer(to_length, from, is_unsigned) ==
  [i \in 1..to_length |->
     IF i = 1 /\ ~is_unsigned THEN (from[Len(from)] + 128) % 256
     ELSE from[Len(from) + 1 - i]]

\* Wrapper_sort_key::copy_int(target_length, from, from_length, is_unsigned).
copy_int(sk, target_length, from, is_unsigned) ==
  [sk EXCEPT !.m_buffer =
     @ \o copy_integer(Min(remaining(sk), target_length), from, is_unsigned)]

\* Wrapper_sort_key::append_str_and_len(str, len), its parts given: the
\* space for the length and the space for the string.
str_and_len(sk, str, space_for_len, space_for_str) ==
  IF space_for_str # 0
  THEN copy_int([sk EXCEPT !.m_buffer = @ \o SubSeq(str, 1, Min(Len(str), space_for_str))],
                space_for_len, int4store(Len(str)), TRUE)
  ELSE [sk EXCEPT !.m_buffer = @ \o SubSeq(str, 1, Min(Len(str), space_for_str))]

\* The space for the length when it is kept for every string.
space_for_length_always(sk, str) == Min(VARLEN_PREFIX, remaining(sk))

space_for_length(sk, str) ==
  IF Len(str) <= remaining(sk) THEN 0 ELSE Min(VARLEN_PREFIX, remaining(sk))

append_str_and_len(sk, str) ==
  str_and_len(sk, str, space_for_length(sk, str),
              remaining(sk) - space_for_length(sk, str))

\* The digit appended for a digit of the number.
sort_key_digit_plain(negative, ch) == ch

sort_key_digit(negative, ch) == IF negative THEN 57 - ch + 48 ELSE ch

\* The position of the first_ch byte of a text, from a position on and before
\* another, that is in a set; the end position when there is none.
RECURSIVE find_if(_, _, _, _)
find_if(from, first_ch, last_ch, chars) ==
  IF first_ch >= last_ch THEN last_ch
  ELSE IF from[first_ch] \in chars THEN first_ch
  ELSE find_if(from, first_ch + 1, last_ch, chars)

\* The digits of the number from the first_ch significant one on.
RECURSIVE significant_digits(_, _, _, _)
significant_digits(from, ch, end_of_digits, negative) ==
  IF ch >= end_of_digits THEN <<>>
  ELSE (IF IsDigit(from[ch]) THEN <<sort_key_digit(negative, from[ch])>> ELSE <<>>)
       \o significant_digits(from, ch + 1, end_of_digits, negative)

\* The decimal exponent of a number in plain format.
numeric_exponent(first_significant_digit, dec_point) ==
  IF first_significant_digit < dec_point THEN dec_point - first_significant_digit - 1
  ELSE dec_point - first_significant_digit

\* make_json_numeric_sort_key(from, len, negative, to) from the first
\* significant digit on.
numeric_sort_key(from, end_of_digits, first_significant_digit, negative, to) ==
  IF first_significant_digit = end_of_digits THEN key_append(to, JSON_KEY_NUMBER_ZERO)
  ELSE
    pad_till(
      [copy_int(key_append(to, IF negative THEN JSON_KEY_NUMBER_NEG
                               ELSE JSON_KEY_NUMBER_POS),
                2,
                int2store((IF negative THEN -1 ELSE 1)
                          * numeric_exponent(first_significant_digit,
                                             find_if(from, 1, end_of_digits, {46}))),
                FALSE)
         EXCEPT !.m_buffer =
           SubSeq(@ \o significant_digits(from, first_significant_digit, end_of_digits,
                                          negative),
                  1, Min(to.m_length,
                         Len(@) + Len(significant_digits(from, first_significant_digit,
                                                         end_of_digits, negative))))],
      IF negative THEN 57 ELSE 48, MAX_NUMBER_SORT_PAD)

make_json_numeric_sort_key(from, negative, to) ==
  numeric_sort_key(from, Len(from) + 1, find_if(from, 1, Len(from) + 1, 49..57),
                   negative, to)

\* Json_wrapper::make_sort_key(to, to_length): the key, whose length the
\* call returns.
make_sort_key(wr, to_length) ==
  (CASE wr.k = "J_NULL" -> key_append(Wrapper_sort_key(to_length), JSON_KEY_NULL)
     [] wr.k = "J_DECIMAL" ->
          make_json_numeric_sort_key(decimal2string(wr.v[1], wr.v[2]), wr.v[1] < 0,
                                     Wrapper_sort_key(to_length))
     [] wr.k = "J_INT" ->
          make_json_numeric_sort_key(append_longlong(wr.v[1]), wr.v[1] < 0,
                                     Wrapper_sort_key(to_length))
     [] wr.k = "J_UINT" ->
          make_json_numeric_sort_key(append_ulonglong(wr.v[1]), FALSE,
                                     Wrapper_sort_key(to_length))
     [] wr.k = "J_DOUBLE" ->
          make_json_numeric_sort_key(my_gcvt(wr.v[1]), wr.v[1] < 0,
                                     Wrapper_sort_key(to_length))
     [] wr.k = "J_STRING" ->
          append_str_and_len(key_append(Wrapper_sort_key(to_length), JSON_KEY_STRING),
                             wr.v)
     [] wr.k \in {"J_OBJECT", "J_ARRAY"} ->
          copy_int(key_append(Wrapper_sort_key(to_length),
                              IF wr.k = "J_OBJECT" THEN JSON_KEY_OBJECT
                              ELSE JSON_KEY_ARRAY),
                   4, int4store(Len(wr.kids)), TRUE)
     [] wr.k = "J_BOOLEAN" ->
          key_append(Wrapper_sort_key(to_length),
                     IF wr.v = <<1>> THEN JSON_KEY_TRUE ELSE JSON_KEY_FALSE)
     [] wr.k = "J_OPAQUE" ->
          append_str_and_len(key_append(key_append(Wrapper_sort_key(to_length),
                                                   JSON_KEY_OPAQUE),
                                        wr.v[1]),
                             SubSeq(wr.v, 2, Len(wr.v)))).m_buffer

\* The values whose keys are made: integers of both signs, of one to four
\* digits and of equal value in both kinds, strings of which one extends
\* another by zero bytes or by others, and a value of each other kind.
SortKeyIntegers ==
  {JInt(n) : n \in {-1000, -100, -11, -10, -2, -1, 0, 1, 2, 10, 11, 100, 1000}}
  \cup {JUint(n) : n \in {0, 1, 2, 10, 1000}}

SortKeyStrings ==
  {JString(s) : s \in {<<>>, <<97>>, <<97, 0>>, <<97, 0, 0>>, <<97, 98>>, <<98>>,
                       <<97, 98, 99, 100, 101>>, <<97, 98, 99, 100, 101, 0>>,
                       <<97, 98, 99, 100, 101, 0, 0, 0>>, <<97, 98, 99, 100, 102>>}}

SortKeyValues ==
  SortKeyIntegers \cup SortKeyStrings
  \cup {JNull, JBool(FALSE), JBool(TRUE), JDouble(-15), JDouble(20), JDecimal(15, 1),
        JDecimal(-5, 1), JOpaque(15, <<1, 2>>), JArray(<<JInt(2)>>),
        JObject(<<KeyA>>, <<JInt(2)>>)}

\* The lengths of the buffer: too short for a number and for the longer
\* strings, and long enough for every key.
SortKeyLengths == {2, 5, 6, 8, MAX_NUMBER_SORT_PAD}

InitSortKey ==
  /\ NoUpdate
  /\ handler = NoHandler
  /\ reader = NoReader
  /\ \E a \in SortKeyValues, b \in SortKeyValues, len \in SortKeyLengths :
     \E l \in {alloc_dom(<<>>, a)} :
     \E r \in {alloc_dom(l.heap, b)} :
       /\ heap = r.heap
       /\ dom_call = [NoDomCall EXCEPT !.left = l.ptr, !.right = r.ptr,
                                       !.to_length = len]

\* Json_wrapper(left).make_sort_key(to, to_length), the same of right, and
\* Json_wrapper(left).compare(Json_wrapper(right)).
MakeSortKey ==
  /\ dom_call.op = "none"
  /\ dom_call' =
       [dom_call EXCEPT
          !.op = "make_sort_key",
          !.out = <<make_sort_key(HeapToDom(heap, dom_call.left), dom_call.to_length),
                    make_sort_key(HeapToDom(heap, dom_call.right), dom_call.to_length),
                    Json_wrapper_compare(HeapToDom(heap, dom_call.left),
                                         HeapToDom(heap, dom_call.right))>>]
  /\ UNCHANGED <<updVars, heap, handler, reader>>

NextSortKey == MakeSortKey

SpecSortKey == InitSortKey /\ [][NextSortKey]_vars

Sign(n) == IF n < 0 THEN -1 ELSE IF n > 0 THEN 1 ELSE 0

\* memcmp of two keys over the bytes both have.
KeyOrder(key_a, key_b) == Sign(memcmp(key_a, key_b, Min(Len(key_a), Len(key_b))))

LeftValue == HeapToDom(heap, dom_call.left)

RightValue == HeapToDom(heap, dom_call.right)

IsInteger(wr) == wr.k \in {"J_INT", "J_UINT"}

\* C17: for integers a and b, each an INT or a UINT, and a buffer long
\* enough for the whole key, memcmp of the keys of a and b has the sign of
\* compare(a, b), and the keys are equal when compare(a, b) is 0, as it is
\* for an INT and a UINT of equal value; so the keys of -1000, -1, 0, 1
\* and 1000 increase strictly.
C17_IntegerSortKeys ==
  (/\ dom_call.op = "make_sort_key"
   /\ dom_call.to_length >= MAX_NUMBER_SORT_PAD
   /\ IsInteger(LeftValue) /\ IsInteger(RightValue)) =>
    /\ KeyOrder(dom_call.out[1], dom_call.out[2]) = Sign(dom_call.out[3])
    /\ dom_call.out[3] = 0 => dom_call.out[1] = dom_call.out[2]
    /\ (LeftValue.v[1] < RightValue.v[1]) = (dom_call.out[3] < 0)

\* The keys of -1000 and -1 are made, and the first is below the second.
C17_Witness ==
  /\ dom_call.op = "make_sort_key"
  /\ dom_call.to_length >= MAX_NUMBER_SORT_PAD
  /\ LeftValue = JInt(-1000) /\ RightValue = JInt(-1)
  /\ Len(dom_call.out[1]) = MAX_NUMBER_SORT_PAD
  /\ KeyOrder(dom_call.out[1], dom_call.out[2]) = -1

\* The keys of an INT and of a UINT of the value 1000 are made and equal.
IntAndUintKeysEqual ==
  /\ dom_call.op = "make_sort_key"
  /\ dom_call.to_length >= MAX_NUMBER_SORT_PAD
  /\ LeftValue = JInt(1000) /\ RightValue = JUint(1000)
  /\ dom_call.out[1] = dom_call.out[2]
  /\ dom_call.out[1][1] = JSON_KEY_NUMBER_POS

\* The length of a string as four bytes, the most significant first.
BigEndianLength(str) == copy_integer(VARLEN_PREFIX, int4store(Len(str)), TRUE)

\* The first bytes of a sequence, as many as a buffer holds.
Truncated(bytes, len) == SubSeq(bytes, 1, Min(Len(bytes), len))

\* One string is another followed by zero bytes, at least one.
RECURSIVE ZeroExtends(_, _)
ZeroExtends(short, long) ==
  /\ Len(long) > Len(short)
  /\ long[Len(long)] = 0
  /\ \/ Len(long) = Len(short) + 1 /\ SubSeq(long, 1, Len(short)) = short
     \/ ZeroExtends(short, SubSeq(long, 1, Len(long) - 1))

BothStrings == LeftValue.k = "J_STRING" /\ RightValue.k = "J_STRING"

\* The space of the buffer after the tag.
SpaceAfterTag == dom_call.to_length - 1

CutStringHasLength ==
  /\ dom_call.op = "make_sort_key"
  /\ LeftValue = JString(<<97, 98, 99, 100, 101, 0, 0, 0>>)
  /\ dom_call.to_length = 8
  /\ dom_call.out[1] = <<JSON_KEY_STRING, 97, 98, 99, 0, 0, 0, 8>>

\* Of two strings of which one extends the other by a zero byte, the
\* shorter fits and the longer does not: memcmp puts the longer first.
CutStringOrderedFirst ==
  /\ dom_call.op = "make_sort_key"
  /\ ZeroExtends(LeftValue.v, RightValue.v)
  /\ Len(LeftValue.v) = SpaceAfterTag
  /\ dom_call.out[3] < 0
  /\ KeyOrder(dom_call.out[1], dom_call.out[2]) = 1

(***************************************************************************)
(* Seek: Json_dom::seek, Json_wrapper::seek and the seek of the parent by  *)
(* Json_wrapper::attempt_binary_update.  The hits of a seek in a DOM are   *)
(* the locations of the nodes, the hits of a seek in a binary value are    *)
(* the values.                                                             *)
(***************************************************************************)
\* contains_ellipsis(path).
contains_ellipsis(path) == \E i \in 1..Len(path) : path[i].type = "jpl_ellipsis"

\* Json_wrapper::seek_no_ellipsis on a wrapper of a DOM (m_is_dom): the
\* node at loc of root.  seek_cells_dom is the loop of the wildcard legs.
RECURSIVE seek_no_ellipsis_dom(_, _, _, _, _, _, _, _)
RECURSIVE seek_cells_dom(_, _, _, _, _, _, _, _, _, _)
seek_no_ellipsis_dom(root, loc, path, hits, current_leg, last_leg, auto_wrap, only_need_one) ==
  IF current_leg >= last_leg THEN Append(hits, loc)
  ELSE IF /\ auto_wrap
          /\ NodeAt(root, loc).k # "J_ARRAY"
          /\ is_autowrap(path[current_leg + 1])
  THEN seek_no_ellipsis_dom(root, loc, path, hits, current_leg + 1, last_leg,
                            auto_wrap, only_need_one)
  ELSE
    CASE path[current_leg + 1].type = "jpl_member" ->
           IF /\ NodeAt(root, loc).k = "J_OBJECT"
              /\ KeyPos(NodeAt(root, loc).keys, path[current_leg + 1].name) # 0
           THEN seek_no_ellipsis_dom(
                  root,
                  Append(loc, KeyPos(NodeAt(root, loc).keys, path[current_leg + 1].name)),
                  path, hits, current_leg + 1, last_leg, auto_wrap, only_need_one)
           ELSE hits
      [] path[current_leg + 1].type = "jpl_member_wildcard" ->
           IF NodeAt(root, loc).k = "J_OBJECT"
           THEN seek_cells_dom(root, loc, path, hits, current_leg, last_leg, auto_wrap,
                               only_need_one, 0, Len(NodeAt(root, loc).kids))
           ELSE hits
      [] path[current_leg + 1].type = "jpl_array_cell" ->
           IF /\ NodeAt(root, loc).k = "J_ARRAY"
              /\ first_array_index(path[current_leg + 1],
                                   Len(NodeAt(root, loc).kids)).within_bounds
           THEN seek_no_ellipsis_dom(
                  root,
                  Append(loc, first_array_index(path[current_leg + 1],
                                                Len(NodeAt(root, loc).kids)).position + 1),
                  path, hits, current_leg + 1, last_leg, auto_wrap, only_need_one)
           ELSE hits
      [] path[current_leg + 1].type \in {"jpl_array_range", "jpl_array_cell_wildcard"} ->
           IF NodeAt(root, loc).k = "J_ARRAY"
           THEN seek_cells_dom(
                  root, loc, path, hits, current_leg, last_leg, auto_wrap, only_need_one,
                  get_array_range(path[current_leg + 1],
                                  Len(NodeAt(root, loc).kids)).m_begin,
                  get_array_range(path[current_leg + 1],
                                  Len(NodeAt(root, loc).kids)).m_end)
           ELSE hits
      [] OTHER -> hits

seek_cells_dom(root, loc, path, hits, current_leg, last_leg, auto_wrap, only_need_one, idx, end) ==
  IF idx >= end \/ is_seek_done(hits, only_need_one) THEN hits
  ELSE seek_cells_dom(root, loc, path,
                      seek_no_ellipsis_dom(root, Append(loc, idx + 1), path, hits,
                                           current_leg + 1, last_leg, auto_wrap,
                                           only_need_one),
                      current_leg, last_leg, auto_wrap, only_need_one, idx + 1, end)

\* Json_wrapper::seek that does not pass only_need_one on.
Json_wrapper_seek_dom_all(root, path, auto_wrap, only_need_one) ==
  IF ~contains_ellipsis(path)
  THEN seek_no_ellipsis_dom(root, <<>>, path, <<>>, 0, Len(path), auto_wrap, FALSE)
  ELSE Json_dom_seek(root, path, auto_wrap, only_need_one)

\* Json_wrapper::seek on a wrapper of a DOM: without an ellipsis
\* seek_no_ellipsis, with one Json_dom::seek and a clone of every hit.
Json_wrapper_seek_dom(root, path, auto_wrap, only_need_one) ==
  IF ~contains_ellipsis(path)
  THEN seek_no_ellipsis_dom(root, <<>>, path, <<>>, 0, Len(path), auto_wrap,
                            only_need_one)
  ELSE Json_dom_seek(root, path, auto_wrap, only_need_one)

\* Json_wrapper::seek on a wrapper of a binary value: with an ellipsis the
\* wrapper is turned into a DOM (to_dom) and the hits are nodes of it.
Json_wrapper_seek(mem, val, path, auto_wrap, only_need_one) ==
  IF ~contains_ellipsis(path)
  THEN seek_no_ellipsis(mem, val, path, <<>>, 0, Len(path), auto_wrap, only_need_one)
  ELSE Json_dom_seek(BinToDom(mem, val), path, auto_wrap, only_need_one)

\* The documents of the seeks: the document {"a":[1,{"a":2}],"b":{"a":3}},
\* a scalar, empty containers, and arrays and objects nested in each other.
EllipsisDoc ==
  JObject(<<KeyA, KeyB>>,
          <<JArray(<<JInt(1), JObject(<<KeyA>>, <<JInt(2)>>)>>),
            JObject(<<KeyA>>, <<JInt(3)>>)>>)

SeekDocs ==
  {EllipsisDoc, JInt(1), JArray(<<>>), JObject(<<>>, <<>>),
   JArray(<<JInt(1), JInt(2)>>),
   JArray(<<JArray(<<JInt(1), JInt(2)>>), JArray(<<JArray(<<JInt(3)>>)>>)>>),
   JObject(<<KeyA>>, <<JObject(<<KeyA, KeyB>>, <<JInt(1), JArray(<<JInt(2)>>)>>)>>),
   JArray(<<JObject(<<KeyA>>, <<JInt(1)>>), JObject(<<KeyA, KeyB>>, <<JInt(2), JInt(3)>>)>>)}

\* $.a, $[0], $[last], $.*, $[*] and $**, and the paths of up to three
\* of them.
SeekLegs ==
  {MemberLeg(KeyA), CellLeg(0, FALSE), CellLeg(0, TRUE), MemberWildcardLeg,
   CellWildcardLeg, EllipsisLeg}

SeekPaths ==
  {<<>>} \cup {<<l>> : l \in SeekLegs}
  \cup {<<l1, l2>> : l1 \in SeekLegs, l2 \in SeekLegs}
  \cup {<<l1, l2, l3>> : l1 \in SeekLegs, l2 \in SeekLegs, l3 \in SeekLegs}

\* A document as a DOM and as the bytes of a field, and the arguments of
\* a seek.
InitSeek ==
  /\ result = <<>>
  /\ ncalls = 0
  /\ last = NoCall
  /\ handler = NoHandler
  /\ reader = NoReader
  /\ \E d \in SeekDocs, p \in SeekPaths, aw \in BOOLEAN, one \in BOOLEAN :
       /\ field_binary = serialize(d)
       /\ m_value = parse_binary([field |-> serialize(d), result |-> <<>>], "field",
                                 Len(serialize(d)))
       /\ heap = alloc_dom(<<>>, d).heap
       /\ dom_call = [NoDomCall EXCEPT !.left = alloc_dom(<<>>, d).ptr, !.path = p,
                                       !.auto_wrap = aw, !.only_need_one = one]

\* left->seek(path, &hits, auto_wrap, only_need_one): out is the hits of
\* the call and the hits of the same call without only_need_one.
DomSeek ==
  /\ dom_call.op = "none"
  /\ dom_call' =
       [dom_call EXCEPT
          !.op = "Json_dom::seek",
          !.m_is_dom = TRUE,
          !.out = <<Json_dom_seek(HeapToDom(heap, dom_call.left), dom_call.path,
                                  dom_call.auto_wrap, dom_call.only_need_one),
                    Json_dom_seek(HeapToDom(heap, dom_call.left), dom_call.path,
                                  dom_call.auto_wrap, FALSE)>>]
  /\ UNCHANGED <<updVars, heap, handler, reader>>

\* Json_wrapper(left).seek(path, &hits, auto_wrap, only_need_one) and the
\* same of the wrapper of the binary value.
WrapperSeek ==
  /\ dom_call.op = "none"
  /\ \E is_dom \in BOOLEAN :
       dom_call' =
         [dom_call EXCEPT
            !.op = "Json_wrapper::seek",
            !.m_is_dom = is_dom,
            !.out = IF is_dom
                    THEN <<Json_wrapper_seek_dom(HeapToDom(heap, dom_call.left),
                                                 dom_call.path, dom_call.auto_wrap,
                                                 dom_call.only_need_one),
                           Json_wrapper_seek_dom(HeapToDom(heap, dom_call.left),
                                                 dom_call.path, dom_call.auto_wrap,
                                                 FALSE)>>
                    ELSE <<Json_wrapper_seek(Mem, m_value, dom_call.path,
                                             dom_call.auto_wrap, dom_call.only_need_one),
                           Json_wrapper_seek(Mem, m_value, dom_call.path,
                                             dom_call.auto_wrap, FALSE)>>]
  /\ UNCHANGED <<updVars, heap, handler, reader>>

\* The seek of the parent in attempt_binary_update:
\* seek_no_ellipsis(path, &hits, 0, path.leg_count() - 1, false, true).
ParentSeek ==
  /\ dom_call.op = "none"
  /\ Len(dom_call.path) > 0
  /\ ~contains_ellipsis(dom_call.path)
  /\ dom_call' =
       [dom_call EXCEPT
          !.op = "seek_no_ellipsis",
          !.out = <<seek_no_ellipsis(Mem, m_value, dom_call.path, <<>>, 0,
                                     Len(dom_call.path) - 1, FALSE, TRUE),
                    seek_no_ellipsis(Mem, m_value, dom_call.path, <<>>, 0,
                                     Len(dom_call.path) - 1, FALSE, FALSE)>>]
  /\ UNCHANGED <<updVars, heap, handler, reader>>

NextSeek == DomSeek \/ WrapperSeek \/ ParentSeek

SpecSeek == InitSeek /\ [][NextSeek]_vars

\* The document, the path and the hits of the observed seek.
SeekRoot == HeapToDom(heap, dom_call.left)

SeekHits == dom_call.out[1]

AllHits == dom_call.out[2]

NoDuplicates(seq) == \A i \in 1..Len(seq), j \in 1..Len(seq) : seq[i] = seq[j] => i = j

\* A node and its descendants in document order: the node, then each
\* child with its descendants, the children of an array in the order of
\* the cells and those of an object in the order of the keys.
RECURSIVE PreOrder(_, _)
RECURSIVE PreOrderFrom(_, _, _)
PreOrder(root, loc) == <<loc>> \o PreOrderFrom(root, loc, 1)

PreOrderFrom(root, loc, i) ==
  IF i > Len(NodeAt(root, loc).kids) THEN <<>>
  ELSE PreOrder(root, Append(loc, i)) \o PreOrderFrom(root, loc, i + 1)

\* The children of a node, in order.
Children(root, loc) == [i \in 1..Len(NodeAt(root, loc).kids) |-> Append(loc, i)]

\* The nodes a leg matches at a node.
LegMatches(root, loc, leg, auto_wrap) ==
  IF auto_wrap /\ NodeAt(root, loc).k # "J_ARRAY" /\ is_autowrap(leg) THEN <<loc>>
  ELSE
    CASE leg.type = "jpl_ellipsis" -> PreOrder(root, loc)
      [] leg.type = "jpl_member" ->
           IF NodeAt(root, loc).k = "J_OBJECT"
           THEN SelectSeq(Children(root, loc),
                          LAMBDA c : NodeAt(root, loc).keys[c[Len(c)]] = leg.name)
           ELSE <<>>
      [] leg.type = "jpl_member_wildcard" ->
           IF NodeAt(root, loc).k = "J_OBJECT" THEN Children(root, loc) ELSE <<>>
      [] leg.type = "jpl_array_cell" ->
           IF NodeAt(root, loc).k = "J_ARRAY"
           THEN SelectSeq(Children(root, loc),
                          LAMBDA c : c[Len(c)] =
                            (IF leg.from_end THEN Len(NodeAt(root, loc).kids) - leg.index
                             ELSE leg.index + 1))
           ELSE <<>>
      [] leg.type = "jpl_array_cell_wildcard" ->
           IF NodeAt(root, loc).k = "J_ARRAY" THEN Children(root, loc) ELSE <<>>

\* A sequence without the later occurrences of its elements.
RECURSIVE Distinct(_)
Distinct(seq) ==
  IF seq = <<>> THEN <<>>
  ELSE IF \E i \in 1..(Len(seq) - 1) : seq[i] = seq[Len(seq)]
  THEN Distinct(SubSeq(seq, 1, Len(seq) - 1))
  ELSE Append(Distinct(SubSeq(seq, 1, Len(seq) - 1)), seq[Len(seq)])

\* The matches of a leg at each of a sequence of nodes, one after another.
RECURSIVE MatchesOfAll(_, _, _, _)
MatchesOfAll(root, locs, leg, auto_wrap) ==
  IF locs = <<>> THEN <<>>
  ELSE LegMatches(root, Head(locs), leg, auto_wrap)
       \o MatchesOfAll(root, Tail(locs), leg, auto_wrap)

\* The matches of a path: those of each leg at the matches of the legs
\* before it, each node once.
RECURSIVE PathMatches(_, _, _)
PathMatches(root, path, auto_wrap) ==
  IF path = <<>> THEN <<(<<>>)>>
  ELSE Distinct(MatchesOfAll(root,
                             PathMatches(root, SubSeq(path, 1, Len(path) - 1), auto_wrap),
                             path[Len(path)], auto_wrap))

\* C19: Json_dom::seek with a path that has an ellipsis leg returns every
\* node at most once, its hits are the matches of the path in document
\* order, and the hits of the path $** are the root followed by all its
\* descendants in pre-order.
C19_EllipsisSeek ==
  (dom_call.op = "Json_dom::seek" /\ contains_ellipsis(dom_call.path)) =>
    /\ NoDuplicates(SeekHits)
    /\ AllHits = PathMatches(SeekRoot, dom_call.path, dom_call.auto_wrap)
    /\ dom_call.path = <<EllipsisLeg>> => AllHits = PreOrder(SeekRoot, <<>>)
    /\ ~dom_call.only_need_one => SeekHits = AllHits

\* The path $**.a is sought in {"a":[1,{"a":2}],"b":{"a":3}}: the hits are
\* the array, then 2, then 3.
C19_Witness ==
  /\ dom_call.op = "Json_dom::seek"
  /\ SeekRoot = EllipsisDoc
  /\ dom_call.path = <<EllipsisLeg, MemberLeg(KeyA)>>
  /\ ~dom_call.only_need_one
  /\ SeekHits = <<(<<1>>), <<1, 2, 1>>, <<2, 1>>>>
  /\ NodeAt(SeekRoot, SeekHits[2]) = JInt(2)
  /\ NodeAt(SeekRoot, SeekHits[3]) = JInt(3)

\* The second of two ellipsis legs finds every node again and adds none
\* of them twice.
EllipsisTwice ==
  /\ dom_call.op = "Json_dom::seek"
  /\ SeekRoot = EllipsisDoc
  /\ dom_call.path = <<EllipsisLeg, EllipsisLeg>>
  /\ ~dom_call.only_need_one
  /\ SeekHits = PreOrder(SeekRoot, <<>>)
  /\ Len(SeekHits) = 7

\* The observed seek was called with only_need_one.
SoughtOne ==
  \/ dom_call.op = "seek_no_ellipsis"
  \/ dom_call.op \in {"Json_dom::seek", "Json_wrapper::seek"} /\ dom_call.only_need_one

\* At most one hit, one when the full seek has any, and then its first.
FirstHitOnly ==
  /\ Len(SeekHits) <= 1
  /\ Len(AllHits) > 0 => (Len(SeekHits) = 1 /\ SeekHits[1] = AllHits[1])

EndsWithEllipsis(path) == Len(path) > 0 /\ path[Len(path)].type = "jpl_ellipsis"

\* C20 as stated: Json_dom::seek, Json_wrapper::seek and
\* Json_wrapper::seek_no_ellipsis called with only_need_one return at most
\* one hit for every path and document, they return a hit whenever the
\* same seek without only_need_one returns any, and the hit is the first
\* hit of that seek.
C20_OnlyNeedOne == SoughtOne => FirstHitOnly

\* Json_dom::seek is called with only_need_one and the path $** on a
\* document that is not a scalar or empty, and returns two hits: the root
\* and its first child.
C20_Witness ==
  /\ dom_call.op = "Json_dom::seek"
  /\ dom_call.only_need_one
  /\ dom_call.path = <<EllipsisLeg>>
  /\ SeekRoot = JArray(<<JInt(1), JInt(2)>>)
  /\ SeekHits = <<(<<>>), <<1>>>>
  /\ Len(AllHits) = 3

\* A seek with only_need_one and a path that does not end with an
\* ellipsis returns the first hit of the full seek and no other hit.
OnlyNeedOneUnlessEllipsisLast ==
  (SoughtOne /\ ~EndsWithEllipsis(dom_call.path)) => FirstHitOnly

\* A seek with only_need_one and a path that ends with an ellipsis
\* returns the first hits of the full seek: two of them when the last
\* node the ellipsis is applied to first has a child, else one.
OnlyNeedOneWithEllipsisLast ==
  (SoughtOne /\ EndsWithEllipsis(dom_call.path)) =>
    /\ Len(SeekHits) <= 2
    /\ Len(SeekHits) <= Len(AllHits)
    /\ SeekHits = SubSeq(AllHits, 1, Len(SeekHits))
    /\ Len(AllHits) > 0 => Len(SeekHits) > 0

\* The parent of attempt_binary_update is sought and found: one hit.
ParentFound ==
  /\ dom_call.op = "seek_no_ellipsis"
  /\ Len(dom_call.path) = 3
  /\ Len(SeekHits) = 1
  /\ Len(AllHits) > 1

\* Json_wrapper::seek of a binary value with only_need_one and a path
\* that ends with an ellipsis returns two hits.
WrapperSeekTwoHits ==
  /\ dom_call.op = "Json_wrapper::seek"
  /\ ~dom_call.m_is_dom
  /\ dom_call.only_need_one
  /\ Len(SeekHits) = 2

(***************************************************************************)
(* Json_wrapper: constructors, destructor, assignment and to_dom.  A       *)
(* wrapper is a record of its members; constructed tells whether an object *)
(* lives in its storage.  The binary value of a wrapper is the bytes of a  *)
(* document.                                                               *)
(***************************************************************************)
NoWrapper ==
  [constructed |-> FALSE, m_is_dom |-> TRUE, m_dom_alias |-> TRUE,
   m_dom_value |-> NullPtr, m_value |-> <<>>]

\* Json_wrapper::Json_wrapper(Json_dom *dom_value).
Json_wrapper_of_dom(dom_value) ==
  [constructed |-> TRUE, m_is_dom |-> TRUE, m_dom_alias |-> dom_value = NullPtr,
   m_dom_value |-> dom_value, m_value |-> <<>>]

\* Json_wrapper::Json_wrapper(const json_binary::Value &value).
Json_wrapper_of_value(value) ==
  [constructed |-> TRUE, m_is_dom |-> FALSE, m_dom_alias |-> TRUE,
   m_dom_value |-> NullPtr, m_value |-> value]

\* Json_wrapper::set_alias().
set_alias(wr) == [wr EXCEPT !.m_dom_alias = TRUE]

\* The wrapper a move leaves behind when it takes no note of the transfer.
moved_from_still_owner(old) == old

\* The wrapper a move construction leaves behind.
moved_from(old) == IF old.m_is_dom THEN set_alias(old) ELSE old

\* Json_wrapper::Json_wrapper(Json_wrapper &&old): the new wrapper.
Json_wrapper_move(old) == [old EXCEPT !.constructed = TRUE]

\* Json_wrapper::Json_wrapper(const Json_wrapper &old): the heap after the
\* construction and the new wrapper.
Json_wrapper_copy(h, old) ==
  IF old.m_is_dom /\ ~old.m_dom_alias
  THEN [heap |-> Json_dom_clone(h, old.m_dom_value).heap,
        wr |-> [old EXCEPT !.m_dom_value = Json_dom_clone(h, old.m_dom_value).ptr]]
  ELSE [heap |-> h, wr |-> old]

\* Json_wrapper::~Json_wrapper(): the heap after it and the DOMs deleted.
Json_wrapper_destroy(h, wr) ==
  IF wr.m_is_dom /\ ~wr.m_dom_alias
  THEN [heap |-> delete_dom(h, wr.m_dom_value), deleted |-> <<wr.m_dom_value>>]
  ELSE [heap |-> h, deleted |-> <<>>]

\* assign_json_wrapper(from, to) of a const reference: wrappers ws[from]
\* and ws[to].
copy_assign(h, ws, from, to) ==
  IF from = to THEN [heap |-> h, ws |-> ws, deleted |-> <<>>]
  ELSE [heap |-> Json_wrapper_copy(Json_wrapper_destroy(h, ws[to]).heap, ws[from]).heap,
        ws |-> [ws EXCEPT ![to] =
                  Json_wrapper_copy(Json_wrapper_destroy(h, ws[to]).heap, ws[from]).wr],
        deleted |-> Json_wrapper_destroy(h, ws[to]).deleted]

\* assign_json_wrapper(std::move(from), to).
move_assign(h, ws, from, to) ==
  IF from = to THEN [heap |-> h, ws |-> ws, deleted |-> <<>>]
  ELSE [heap |-> Json_wrapper_destroy(h, ws[to]).heap,
        ws |-> [ws EXCEPT ![to] = Json_wrapper_move(ws[from]),
                          ![from] = moved_from(ws[from])],
        deleted |-> Json_wrapper_destroy(h, ws[to]).deleted]

\* Json_wrapper::to_dom(thd): the heap after it and the wrapper.
to_dom(h, wr) ==
  IF ~wr.m_is_dom
  THEN [heap |-> alloc_dom(h, BinToDom([field |-> wr.m_value, result |-> <<>>],
                                       parse_binary([field |-> wr.m_value,
                                                     result |-> <<>>],
                                                    "field", Len(wr.m_value)))).heap,
        wr |-> [wr EXCEPT !.m_is_dom = TRUE, !.m_dom_alias = FALSE,
                          !.m_dom_value = Len(h) + 1]]
  ELSE [heap |-> h, wr |-> wr]

\* The documents of the wrappers: a scalar and an array of a scalar.
WrapperDocs == {JInt(1), JArray(<<JString(<<97>>)>>)}

\* Two wrappers that own a DOM each, or one that owns a DOM and one of a
\* binary value, and the storage of a third.
InitWrappers ==
  /\ NoUpdate
  /\ handler = NoHandler
  /\ reader = NoReader
  /\ \E d1 \in WrapperDocs, d2 \in WrapperDocs, binary \in BOOLEAN :
       /\ heap = IF binary THEN alloc_dom(<<>>, d1).heap
                 ELSE alloc_dom(alloc_dom(<<>>, d1).heap, d2).heap
       /\ dom_call =
            [NoDomCall EXCEPT
               !.wrappers =
                 <<Json_wrapper_of_dom(1),
                   IF binary THEN Json_wrapper_of_value(serialize(d2))
                   ELSE Json_wrapper_of_dom(Len(alloc_dom(<<>>, d1).heap) + 1),
                   NoWrapper>>]

Constructed == {i \in 1..Len(dom_call.wrappers) : dom_call.wrappers[i].constructed}

NotConstructed == {i \in 1..Len(dom_call.wrappers) : ~dom_call.wrappers[i].constructed}

\* The state after an operation on the wrappers from and to.
WrapperCalled(op, from, to, h, ws, deleted) ==
  /\ dom_call.calls < MaxWrapperOps
  /\ heap' = h
  /\ dom_call' = [dom_call EXCEPT !.op = op, !.left = from, !.right = to,
                                  !.before = dom_call.wrappers, !.wrappers = ws,
                                  !.deleted = @ \o deleted, !.calls = @ + 1]
  /\ UNCHANGED <<updVars, handler, reader>>

\* Json_wrapper to(from).
CopyConstruct ==
  \E from \in Constructed, to \in NotConstructed :
    WrapperCalled("copy", from, to,
                  Json_wrapper_copy(heap, dom_call.wrappers[from]).heap,
                  [dom_call.wrappers EXCEPT
                     ![to] = Json_wrapper_copy(heap, dom_call.wrappers[from]).wr],
                  <<>>)

\* Json_wrapper to(std::move(from)).
MoveConstruct ==
  \E from \in Constructed, to \in NotConstructed :
    WrapperCalled("move", from, to, heap,
                  [dom_call.wrappers EXCEPT
                     ![to] = Json_wrapper_move(dom_call.wrappers[from]),
                     ![from] = moved_from(dom_call.wrappers[from])],
                  <<>>)

\* to= from, to= to included.
CopyAssign ==
  \E from \in Constructed, to \in Constructed :
    WrapperCalled("copy_assign", from, to,
                  copy_assign(heap, dom_call.wrappers, from, to).heap,
                  copy_assign(heap, dom_call.wrappers, from, to).ws,
                  copy_assign(heap, dom_call.wrappers, from, to).deleted)

\* to= std::move(from), to= std::move(to) included.
MoveAssign ==
  \E from \in Constructed, to \in Constructed :
    WrapperCalled("move_assign", from, to,
                  move_assign(heap, dom_call.wrappers, from, to).heap,
                  move_assign(heap, dom_call.wrappers, from, to).ws,
                  move_assign(heap, dom_call.wrappers, from, to).deleted)

\* The end of the lifetime of a wrapper.
Destroy ==
  \E to \in Constructed :
    WrapperCalled("destroy", to, to,
                  Json_wrapper_destroy(heap, dom_call.wrappers[to]).heap,
                  [dom_call.wrappers EXCEPT ![to] = NoWrapper],
                  Json_wrapper_destroy(heap, dom_call.wrappers[to]).deleted)

\* to.to_dom(thd).
ToDom ==
  \E to \in Constructed :
    WrapperCalled("to_dom", to, to,
                  to_dom(heap, dom_call.wrappers[to]).heap,
                  [dom_call.wrappers EXCEPT ![to] = to_dom(heap, dom_call.wrappers[to]).wr],
                  <<>>)

NextWrappers ==
  CopyConstruct \/ MoveConstruct \/ CopyAssign \/ MoveAssign \/ Destroy \/ ToDom

SpecWrappers == InitWrappers /\ [][NextWrappers]_vars

\* The wrappers that hold a DOM they are to destroy.
Owners(ws) == {i \in 1..Len(ws) : ws[i].constructed /\ ws[i].m_is_dom /\ ~ws[i].m_dom_alias}

WrapperFrom == dom_call.before[dom_call.left]

WrapperTo == dom_call.wrappers[dom_call.right]

\* C21: across every sequence of copy and move construction, copy and move
\* assignment (a wrapper to itself included) and destruction of wrappers:
\* no DOM is deleted twice; the wrappers that are not aliases hold live
\* DOMs, each another one with no node in common; the copy of an owning
\* wrapper owns a new DOM of the same value and leaves the source as it
\* was; a move hands the DOM and the ownership of the source to the
\* target and leaves the source an alias of it; and the destruction of an
\* alias or of a wrapper of a binary value deletes nothing.
C21_WrapperOwnership ==
  /\ NoDuplicates(dom_call.deleted)
  /\ \A i \in Owners(dom_call.wrappers) :
       /\ dom_call.wrappers[i].m_dom_value # NullPtr
       /\ \A q \in Owned(heap, dom_call.wrappers[i].m_dom_value) : heap[q].live
       /\ \A j \in Owners(dom_call.wrappers) \ {i} :
            Owned(heap, dom_call.wrappers[i].m_dom_value)
              \cap Owned(heap, dom_call.wrappers[j].m_dom_value) = {}
  /\ \A i \in 1..Len(dom_call.deleted) : ~heap[dom_call.deleted[i]].live
  /\ (dom_call.op \in {"copy", "copy_assign"} /\ dom_call.left # dom_call.right
      /\ dom_call.left \in Owners(dom_call.before)) =>
       /\ dom_call.right \in Owners(dom_call.wrappers)
       /\ WrapperTo.m_dom_value # WrapperFrom.m_dom_value
       /\ \A i \in 1..Len(dom_call.before) :
            WrapperTo.m_dom_value # dom_call.before[i].m_dom_value
       /\ HeapToDom(heap, WrapperTo.m_dom_value)
            = HeapToDom(heap, WrapperFrom.m_dom_value)
       /\ dom_call.wrappers[dom_call.left] = WrapperFrom
  /\ (dom_call.op \in {"move", "move_assign"} /\ dom_call.left # dom_call.right
      /\ WrapperFrom.m_is_dom) =>
       /\ WrapperTo.m_is_dom
       /\ WrapperTo.m_dom_value = WrapperFrom.m_dom_value
       /\ WrapperTo.m_dom_alias = WrapperFrom.m_dom_alias
       /\ dom_call.wrappers[dom_call.left] = set_alias(WrapperFrom)
  /\ (dom_call.op \in {"copy_assign", "move_assign"} /\ dom_call.left = dom_call.right) =>
       dom_call.wrappers = dom_call.before
  /\ (dom_call.op = "destroy" /\ dom_call.left \notin Owners(dom_call.before)) =>
       \A p \in 1..Len(heap) :
         heap[p].live \/ \E i \in 1..Len(dom_call.deleted) :
                           p \in Owned(heap, dom_call.deleted[i])

\* A wrapper was moved to another and both were destroyed: the DOM was
\* deleted once.
C21_Witness ==
  /\ dom_call.calls = 3
  /\ dom_call.op = "destroy"
  /\ Len(dom_call.deleted) = 1
  /\ dom_call.before[dom_call.left].m_dom_alias
  /\ dom_call.before[dom_call.left].m_dom_value = dom_call.deleted[1]
  /\ \E i \in NotConstructed : i # dom_call.left

\* A copy of an owning wrapper was made and both were destroyed: two DOMs
\* were deleted.
CopyDestroyedToo ==
  /\ dom_call.calls = 3
  /\ dom_call.op = "destroy"
  /\ Len(dom_call.deleted) = 2
  /\ Owners(dom_call.wrappers) # {}

\* The wrapper that owned a DOM is assigned an alias of that DOM: the DOM
\* is deleted and the wrapper is left an alias of it.
AssignedOwnAlias ==
  /\ dom_call.op = "copy_assign"
  /\ dom_call.left # dom_call.right
  /\ WrapperTo.m_dom_alias
  /\ WrapperTo.m_dom_value # NullPtr
  /\ ~heap[WrapperTo.m_dom_value].live
  /\ dom_call.right \in Owners(dom_call.before)

(***************************************************************************)
(* Json_dom::get_location.                                                 *)
(***************************************************************************)
\* The position of the first value of a container that is a DOM, or 0.
FirstHolding(kids, this) ==
  IF \E i \in 1..Len(kids) : kids[i] = this
  THEN CHOOSE i \in 1..Len(kids) : kids[i] = this /\ \A j \in 1..(i - 1) : kids[j] # this
  ELSE 0

\* Json_path_leg(idx) with the index counted from the end.
array_child_leg_from_end(idx) == CellLeg(idx, TRUE)

\* Json_path_leg child_leg(idx): the leg of the cell idx of an array.
array_child_leg(idx) == CellLeg(idx, FALSE)

\* The leg get_location appends for this in its parent: none when the
\* parent does not hold it.
child_leg(h, parent, this) ==
  IF FirstHolding(h[parent].kids, this) = 0 THEN <<>>
  ELSE IF h[parent].type = "J_OBJECT"
  THEN <<MemberLeg(h[parent].keys[FirstHolding(h[parent].kids, this)])>>
  ELSE <<array_child_leg(FirstHolding(h[parent].kids, this) - 1)>>

\* Json_dom::get_location().
RECURSIVE get_location(_, _)
get_location(h, this) ==
  IF h[this].parent = NullPtr THEN <<>>
  ELSE get_location(h, h[this].parent) \o child_leg(h, h[this].parent, this)

\* A document as a DOM.
InitLocation ==
  /\ NoUpdate
  /\ handler = NoHandler
  /\ reader = NoReader
  /\ \E d \in SeekDocs :
       /\ heap = alloc_dom(<<>>, d).heap
       /\ dom_call = [NoDomCall EXCEPT !.left = alloc_dom(<<>>, d).ptr]

\* this->insert_alias(0, new Json_int(9)) on an array of the document.
InsertFirst ==
  /\ dom_call.op # "get_location"
  /\ dom_call.calls < MaxOps
  /\ \E this \in {p \in LiveNodes(heap) : heap[p].type = "J_ARRAY"} :
       /\ heap' = Json_array_insert_alias(new_dom(heap, "J_INT", <<9>>).heap, this, 0,
                                          Len(heap) + 1).heap
       /\ dom_call' = [dom_call EXCEPT !.op = "insert_alias", !.right = this,
                                       !.calls = @ + 1]
  /\ UNCHANGED <<updVars, handler, reader>>

\* this->remove(0) on an array and this->remove("a") on an object of the
\* document.
RemoveFirst ==
  /\ dom_call.op # "get_location"
  /\ dom_call.calls < MaxOps
  /\ \E this \in {p \in LiveNodes(heap) : heap[p].type \in {"J_ARRAY", "J_OBJECT"}} :
       /\ heap' = IF heap[this].type = "J_ARRAY"
                  THEN Json_array_remove(heap, this, 0).heap
                  ELSE Json_object_remove(heap, this, KeyA).heap
       /\ dom_call' = [dom_call EXCEPT !.op = "remove", !.right = this, !.calls = @ + 1]
  /\ UNCHANGED <<updVars, handler, reader>>

\* n->get_location() of a node n of the document, and
\* left->seek(path, &hits, false, false) with the path returned.
GetLocation ==
  /\ dom_call.op # "get_location"
  /\ \E n \in LiveNodes(heap) :
       dom_call' =
         [dom_call EXCEPT
            !.op = "get_location",
            !.right = n,
            !.path = get_location(heap, n),
            !.out = Json_dom_seek(HeapToDom(heap, dom_call.left), get_location(heap, n),
                                  FALSE, FALSE)]
  /\ UNCHANGED <<updVars, heap, handler, reader>>

NextLocation == InsertFirst \/ RemoveFirst \/ GetLocation

SpecLocation == InitLocation /\ [][NextLocation]_vars

\* The DOM at a location of the tree of a root.
RECURSIVE PtrAt(_, _, _)
PtrAt(h, root, loc) ==
  IF loc = <<>> THEN root ELSE PtrAt(h, h[root].kids[Head(loc)], Tail(loc))

\* The ancestors of a DOM: its parent, the parent of that, and so on.
RECURSIVE Ancestors(_, _)
Ancestors(h, this) ==
  IF h[this].parent = NullPtr THEN {}
  ELSE {h[this].parent} \cup Ancestors(h, h[this].parent)

\* C22: for every node n of the tree with the root r, the seek of
\* n.get_location() from r without auto-wrap returns one hit, which is n;
\* the location of the root is the empty path, and the path has as many
\* legs as n has ancestors.
C22_LocationFindsNode ==
  dom_call.op = "get_location" =>
    /\ Len(dom_call.out) = 1
    /\ PtrAt(heap, dom_call.left, dom_call.out[1]) = dom_call.right
    /\ Len(dom_call.path) = Cardinality(Ancestors(heap, dom_call.right))
    /\ (dom_call.right = dom_call.left) = (dom_call.path = <<>>)

\* The location of a node three levels below the root, in an array into
\* which a value was inserted before it, is asked and sought.
C22_Witness ==
  /\ dom_call.op = "get_location"
  /\ dom_call.calls > 0
  /\ Len(dom_call.path) = 3
  /\ dom_call.path[2].type = "jpl_array_cell"
  /\ dom_call.path[2].index = 1
  /\ dom_call.path[3].type = "jpl_member"
  /\ dom_call.out = <<(<<1, 2, 1>>)>>
  /\ PtrAt(heap, dom_call.left, <<1, 2, 1>>) = dom_call.right

(***************************************************************************)
(* Json_wrapper::coerce_int.  A 64-bit integer is held exactly, as a sign  *)
(* and a magnitude of four 16-bit limbs, the most significant first: a     *)
(* ulonglong is any magnitude with no sign, a longlong a number from       *)
(* -2^63 to 2^63 - 1.  A double is held as sign, mantissa and binary       *)
(* exponent (mantissa * 2^exponent, the mantissa odd and below 2^15 or 0). *)
(* A decimal is a number of tenths, as before.                             *)
(***************************************************************************)
LimbBase == 256 * 256

Wide(neg, mag) == [neg |-> neg, mag |-> mag]

\* A small number as a 64-bit integer.
WideOf(n) ==
  Wide(n < 0, <<0, 0, (IF n < 0 THEN -n ELSE n) \div LimbBase,
                (IF n < 0 THEN -n ELSE n) % LimbBase>>)

LLONG_MIN == Wide(TRUE, <<LimbBase \div 2, 0, 0, 0>>)

LLONG_MAX == Wide(FALSE, <<LimbBase \div 2 - 1, LimbBase - 1, LimbBase - 1, LimbBase - 1>>)

\* mag + 1 modulo 2^64, limb by limb from the least significant.
RECURSIVE AddOne(_, _)
AddOne(mag, i) ==
  IF i = 0 THEN mag
  ELSE IF mag[i] = LimbBase - 1 THEN AddOne([mag EXCEPT ![i] = 0], i - 1)
  ELSE [mag EXCEPT ![i] = @ + 1]

\* 2^64 - mag: the two's complement of the bits.
TwosComplement(mag) == AddOne([i \in 1..4 |-> LimbBase - 1 - mag[i]], 4)

\* static_cast<longlong>(u): the same 64 bits read as a signed number.
static_cast_longlong(u) ==
  IF u.mag[1] >= LimbBase \div 2 THEN Wide(TRUE, TwosComplement(u.mag)) ELSE u

Double(neg, man, exp) == [neg |-> neg, man |-> man, exp |-> exp]

\* The number of bits of a mantissa.
RECURSIVE BitLen(_)
BitLen(n) == IF n = 0 THEN 0 ELSE 1 + BitLen(n \div 2)

\* |j| >= 2^63, that is j <= (double) LLONG_MIN for a negative j and
\* j >= (double) (ulonglong) LLONG_MAX, which is 2^63, for a positive one.
AtLeastTwoTo63(j) == j.man > 0 /\ BitLen(j.man) + j.exp >= 64

\* (longlong) rint(j) for |j| < 2^63: the nearest integer, a tie to the
\* even one.
rint(j) ==
  IF j.exp >= 0
  THEN Wide(j.neg /\ j.man > 0,
            [i \in 1..4 |->
               IF 4 - i = j.exp \div 16 THEN (j.man * 2^(j.exp % 16)) % LimbBase
               ELSE IF 4 - i = j.exp \div 16 + 1 THEN (j.man * 2^(j.exp % 16)) \div LimbBase
               ELSE 0])
  ELSE IF j.exp < -16 THEN WideOf(0)
  ELSE IF (j.man % 2^(-j.exp)) * 2 > 2^(-j.exp)
          \/ ((j.man % 2^(-j.exp)) * 2 = 2^(-j.exp) /\ (j.man \div 2^(-j.exp)) % 2 = 1)
  THEN WideOf((IF j.neg THEN -1 ELSE 1) * (j.man \div 2^(-j.exp) + 1))
  ELSE WideOf((IF j.neg THEN -1 ELSE 1) * (j.man \div 2^(-j.exp)))

\* my_decimal2int(E_DEC_FATAL_ERROR, &decimal_value, unsigned, &i): the
\* decimal rounded to an integer, a half away from zero.
my_decimal2int(tenths) ==
  IF tenths < 0 THEN WideOf(-((-tenths + 5) \div 10)) ELSE WideOf((tenths + 5) \div 10)

MY_ERRNO_EDOM == 33

MY_ERRNO_ERANGE == 34

\* The end of the digits of a text that start at a position.
RECURSIVE strtoll10_end(_, _)
strtoll10_end(s, i) ==
  IF i <= Len(s) /\ s[i] \in 48..57 THEN strtoll10_end(s, i + 1) ELSE i

RECURSIVE strtoll10_value(_, _, _)
strtoll10_value(s, i, end) ==
  IF i >= end THEN 0 ELSE (s[i] - 48) * 10^(end - 1 - i) + strtoll10_value(s, i + 1, end)

\* cs->cset->strtoll10(cs, start, &end, &error) on a text of the model: an
\* optional sign and digits; no digit is MY_ERRNO_EDOM, more than nineteen
\* digits MY_ERRNO_ERANGE with the limit as the value, and a negative
\* number gives the error -1.  A text of the model with digits has at most
\* nine or at least twenty of them.
strtoll10(s) ==
  IF strtoll10_end(s, IF s # <<>> /\ s[1] = 45 THEN 2 ELSE 1)
       = (IF s # <<>> /\ s[1] = 45 THEN 2 ELSE 1)
  THEN [value |-> WideOf(0), end |-> 1, error |-> MY_ERRNO_EDOM]
  ELSE IF s[1] = 45
  THEN (IF strtoll10_end(s, 2) - 2 > 19
        THEN [value |-> LLONG_MIN, end |-> strtoll10_end(s, 2), error |-> MY_ERRNO_ERANGE]
        ELSE [value |-> WideOf(-strtoll10_value(s, 2, strtoll10_end(s, 2))),
              end |-> strtoll10_end(s, 2), error |-> -1])
  ELSE (IF strtoll10_end(s, 1) - 1 > 19
        THEN [value |-> LLONG_MAX, end |-> strtoll10_end(s, 1), error |-> MY_ERRNO_ERANGE]
        ELSE [value |-> WideOf(strtoll10_value(s, 1, strtoll10_end(s, 1))),
              end |-> strtoll10_end(s, 1), error |-> 0])

ER_NUMERIC_JSON_VALUE_OUT_OF_RANGE == "ER_NUMERIC_JSON_VALUE_OUT_OF_RANGE"

ER_INVALID_JSON_VALUE_FOR_CAST == "ER_INVALID_JSON_VALUE_FOR_CAST"

\* push_json_coercion_warning(target_type, error_code, msgnam).
push_json_coercion_warning(target_type, error_code, msgnam) ==
  <<[target_type |-> target_type, error_code |-> error_code, msgnam |-> msgnam]>>

\* Json_wrapper::coerce_int(msgnam): the value returned and the warnings
\* pushed.
coerce_int(wr, msgnam) ==
  CASE wr.k = "J_UINT" -> [ret |-> static_cast_longlong(wr.v), warnings |-> <<>>]
    [] wr.k = "J_INT" -> [ret |-> wr.v, warnings |-> <<>>]
    [] wr.k = "J_STRING" ->
         [ret |-> strtoll10(wr.v).value,
          warnings |->
            IF strtoll10(wr.v).error > 0 \/ strtoll10(wr.v).end # Len(wr.v) + 1
            THEN push_json_coercion_warning(
                   "INTEGER",
                   IF strtoll10(wr.v).error = MY_ERRNO_ERANGE
                   THEN ER_NUMERIC_JSON_VALUE_OUT_OF_RANGE
                   ELSE ER_INVALID_JSON_VALUE_FOR_CAST,
                   msgnam)
            ELSE <<>>]
    [] wr.k = "J_BOOLEAN" -> [ret |-> WideOf(IF wr.v[1] # 0 THEN 1 ELSE 0), warnings |-> <<>>]
    [] wr.k = "J_DECIMAL" -> [ret |-> my_decimal2int(wr.v[1]), warnings |-> <<>>]
    [] wr.k = "J_DOUBLE" ->
         (IF wr.v.neg /\ AtLeastTwoTo63(wr.v)
          THEN [ret |-> LLONG_MIN,
                warnings |-> push_json_coercion_warning(
                               "INTEGER", ER_NUMERIC_JSON_VALUE_OUT_OF_RANGE, msgnam)]
          ELSE IF ~wr.v.neg /\ AtLeastTwoTo63(wr.v)
          THEN [ret |-> LLONG_MAX,
                warnings |-> push_json_coercion_warning(
                               "INTEGER", ER_NUMERIC_JSON_VALUE_OUT_OF_RANGE, msgnam)]
          ELSE [ret |-> rint(wr.v), warnings |-> <<>>])
    [] OTHER ->
         [ret |-> WideOf(0),
          warnings |-> push_json_coercion_warning(
                         "INTEGER", ER_INVALID_JSON_VALUE_FOR_CAST, msgnam)]

\* The magnitudes of the model: small ones, the ones around 2^63 and the
\* largest.
CoerceMagnitudes ==
  {<<0, 0, 0, 0>>, <<0, 0, 0, 1>>, <<0, 0, 0, 7>>, <<0, 0, 1, 0>>, <<0, 1, 0, 0>>,
   <<1, 2, 3, 4>>, LLONG_MAX.mag, LLONG_MIN.mag, AddOne(LLONG_MIN.mag, 4),
   <<LimbBase \div 2, 1, 0, 0>>, <<LimbBase - 1, 0, 0, 0>>,
   <<LimbBase - 1, LimbBase - 1, LimbBase - 1, LimbBase - 2>>,
   <<LimbBase - 1, LimbBase - 1, LimbBase - 1, LimbBase - 1>>}

\* The magnitude is below 2^63.
BelowTwoTo63(mag) == mag[1] < LimbBase \div 2

Wrapped(k, v) == [k |-> k, v |-> v, keys |-> <<>>, kids |-> <<>>]

CoerceUints == {Wrapped("J_UINT", Wide(FALSE, mag)) : mag \in CoerceMagnitudes}

CoerceInts ==
  {Wrapped("J_INT", Wide(FALSE, mag)) : mag \in {m \in CoerceMagnitudes : BelowTwoTo63(m)}}
  \cup {Wrapped("J_INT", Wide(TRUE, mag)) :
          mag \in {m \in CoerceMagnitudes :
                     m # <<0, 0, 0, 0>> /\ (BelowTwoTo63(m) \/ m = LLONG_MIN.mag)}}

CoerceDoubles ==
  {Wrapped("J_DOUBLE", Double(neg /\ man > 0, man, IF man = 0 THEN 0 ELSE exp)) :
     neg \in BOOLEAN, man \in {0, 1, 3, 5, 32767}, exp \in {-2, -1, 0, 17, 48, 61, 62, 63, 64, 100}}

CoerceStrings ==
  {JString(s) : s \in {<<>>, <<49, 50>>, <<45, 51>>, <<49, 120>>, <<120>>, <<45>>,
                       [i \in 1..20 |-> 57], <<45>> \o [i \in 1..20 |-> 57],
                       [i \in 1..20 |-> 57] \o <<120>>}}

CoerceValues ==
  CoerceUints \cup CoerceInts \cup CoerceDoubles \cup CoerceStrings
  \cup {JBool(TRUE), JBool(FALSE), JNull, JArray(<<>>), JDecimal(-25, 1), JDecimal(14, 1),
        JDecimal(30, 0), JTemporal("J_DATE", <<2015, 1, 15, 0, 0, 0, 0>>)}

Msgnams == {"CAST", "JSON_VALUE"}

InitCoerce ==
  /\ NoUpdate
  /\ heap = <<>>
  /\ handler = NoHandler
  /\ reader = NoReader
  /\ \E wr \in CoerceValues : dom_call = [NoDomCall EXCEPT !.left = wr]

\* wr.coerce_int(msgnam).
CoerceInt ==
  /\ dom_call.op = "none"
  /\ \E msgnam \in Msgnams :
       dom_call' = [dom_call EXCEPT !.op = "coerce_int",
                                    !.name = msgnam,
                                    !.ret = coerce_int(dom_call.left, msgnam).ret,
                                    !.out = coerce_int(dom_call.left, msgnam).warnings]
  /\ UNCHANGED <<updVars, heap, handler, reader>>

NextCoerce == CoerceInt

SpecCoerce == InitCoerce /\ [][NextCoerce]_vars

CoerceValue == dom_call.left

Warned(code) == \E i \in 1..Len(dom_call.out) : dom_call.out[i].error_code = code

\* The number held by an integer or a double fits the signed 64-bit
\* result: it is at least -2^63 and below 2^63.
FitsLonglong(wr) ==
  IF wr.k = "J_DOUBLE"
  THEN ~AtLeastTwoTo63(wr.v) \/ (wr.v.neg /\ wr.v.man = 1 /\ wr.v.exp = 63)
  ELSE BelowTwoTo63(wr.v.mag) \/ (wr.v.neg /\ wr.v.mag = LLONG_MIN.mag)

\* C23: coerce_int raises the warning "value out of range" whenever the
\* UINT or DOUBLE cast does not fit the signed 64-bit result, and raises no
\* warning for an INT, for a UINT up to 2^63 - 1 and for a boolean, which
\* are returned exactly (0 or 1 for a boolean).
C23_OutOfRangeWarned ==
  dom_call.op = "coerce_int" =>
    /\ (CoerceValue.k \in {"J_UINT", "J_DOUBLE"} /\ ~FitsLonglong(CoerceValue))
         => Warned(ER_NUMERIC_JSON_VALUE_OUT_OF_RANGE)
    /\ (CoerceValue.k = "J_INT" \/ (CoerceValue.k = "J_UINT" /\ FitsLonglong(CoerceValue)))
         => dom_call.out = <<>> /\ dom_call.ret = CoerceValue.v
    /\ CoerceValue.k = "J_BOOLEAN"
         => dom_call.out = <<>> /\ dom_call.ret = WideOf(CoerceValue.v[1])

\* The UINT 2^64 - 1 is cast: the result is -1 and there is no warning.
C23_Witness ==
  /\ dom_call.op = "coerce_int"
  /\ CoerceValue = Wrapped("J_UINT", Wide(FALSE, [i \in 1..4 |-> LimbBase - 1]))
  /\ dom_call.ret = WideOf(-1)
  /\ dom_call.out = <<>>

\* What the claim says of every kind but a UINT above 2^63 - 1 holds; a
\* double warns exactly when it is at most -2^63 or at least 2^63.
OutOfRangeWarnedButUint ==
  dom_call.op = "coerce_int" =>
    /\ (CoerceValue.k = "J_DOUBLE" /\ ~FitsLonglong(CoerceValue))
         => Warned(ER_NUMERIC_JSON_VALUE_OUT_OF_RANGE)
    /\ CoerceValue.k = "J_DOUBLE"
         => (dom_call.out # <<>>) = AtLeastTwoTo63(CoerceValue.v)
    /\ (CoerceValue.k = "J_INT" \/ (CoerceValue.k = "J_UINT" /\ FitsLonglong(CoerceValue)))
         => dom_call.out = <<>> /\ dom_call.ret = CoerceValue.v
    /\ CoerceValue.k = "J_BOOLEAN"
         => dom_call.out = <<>> /\ dom_call.ret = WideOf(CoerceValue.v[1])

\* A UINT above 2^63 - 1 is returned as the negative number of the same
\* bits, its value less 2^64, with no warning.
UintWrapsSilently ==
  (dom_call.op = "coerce_int" /\ CoerceValue.k = "J_UINT" /\ ~FitsLonglong(CoerceValue)) =>
    /\ dom_call.out = <<>>
    /\ dom_call.ret.neg
    /\ dom_call.ret.mag = TwosComplement(CoerceValue.v.mag)
    /\ FitsLonglong(Wrapped("J_INT", dom_call.ret))

\* The double -2^63, which fits, is cast with the warning.
DoubleMinWarned ==
  /\ dom_call.op = "coerce_int"
  /\ CoerceValue = Wrapped("J_DOUBLE", Double(TRUE, 1, 63))
  /\ dom_call.ret = LLONG_MIN
  /\ Warned(ER_NUMERIC_JSON_VALUE_OUT_OF_RANGE)

\* A double with a half is cast to the even neighbour: 2.5 to 2.
DoubleRounded ==
  /\ dom_call.op = "coerce_int"
  /\ CoerceValue = Wrapped("J_DOUBLE", Double(FALSE, 5, -1))
  /\ dom_call.ret = WideOf(2)
  /\ dom_call.out = <<>>

(***************************************************************************)
(* double_quote on its own: every text of one byte and the texts of two    *)
(* and three bytes over some bytes of every class.                         *)
(***************************************************************************)
QuoteBytes == {0, 8, 9, 10, 12, 13, 30, 31, 32, 34, 92, 97, 127, 128, 159, 255}

QuoteTexts ==
  {<<>>} \cup {<<c>> : c \in 0..255} \cup {<<c, d>> : c, d \in QuoteBytes}
  \cup {<<97, c, 98>> : c \in QuoteBytes}

InitQuote ==
  /\ NoUpdate
  /\ heap = <<>>
  /\ handler = NoHandler
  /\ reader = NoReader
  /\ \E str \in QuoteTexts : dom_call = [NoDomCall EXCEPT !.name = str]

\* double_quote(cptr, length, buf) with an empty buffer.
DoubleQuote ==
  /\ dom_call.op = "none"
  /\ dom_call' = [dom_call EXCEPT !.op = "double_quote", !.out = double_quote(dom_call.name)]
  /\ UNCHANGED <<updVars, heap, handler, reader>>

NextQuote == DoubleQuote

SpecQuote == InitQuote /\ [][NextQuote]_vars

\* The escape of a byte as the table of double_quote has it: the two
\* character escapes, \u00XX for the other bytes from 0x00 to 0x1F, a
\* backslash before quote and backslash, and the byte itself otherwise.
TableEscape(c) ==
  CASE c = 8 -> <<92, 98>>
    [] c = 12 -> <<92, 102>>
    [] c = 10 -> <<92, 110>>
    [] c = 13 -> <<92, 114>>
    [] c = 9 -> <<92, 116>>
    [] c \in 0..31 \ {8, 9, 10, 12, 13} ->
         <<92, 117, 48, 48, dig_vec_lower(c \div 16), dig_vec_lower(c % 16)>>
    [] c \in {34, 92} -> <<92, c>>
    [] OTHER -> <<c>>

RECURSIVE TableEscapes(_)
TableEscapes(str) ==
  IF str = <<>> THEN <<>> ELSE TableEscape(Head(str)) \o TableEscapes(Tail(str))

QuoteInput == dom_call.name

QuoteOutput == dom_call.out

\* C24: double_quote escapes every byte from 0x00 to 0x1F, five of them
\* as two characters and the others as \u00XX, so that its output has no
\* raw control character; quote and backslash get a backslash before them
\* and every other byte is copied.
C24_ControlsEscaped ==
  dom_call.op = "double_quote" =>
    /\ QuoteOutput = <<34>> \o TableEscapes(QuoteInput) \o <<34>>
    /\ \A i \in 1..Len(QuoteOutput) : QuoteOutput[i] \notin 0..31

\* The text of the byte 0x1f is quoted: the byte is copied as it is.
C24_Witness ==
  /\ dom_call.op = "double_quote"
  /\ QuoteInput = <<31>>
  /\ QuoteOutput = <<34, 31, 34>>

\* What the claim says holds of every text without the byte 0x1f, and the
\* byte 0x1f is copied.
ControlsBelow1fEscaped ==
  dom_call.op = "double_quote" =>
    /\ (\A i \in 1..Len(QuoteInput) : QuoteInput[i] # 31)
         => /\ QuoteOutput = <<34>> \o TableEscapes(QuoteInput) \o <<34>>
            /\ \A i \in 1..Len(QuoteOutput) : QuoteOutput[i] \notin 0..31
    /\ \A i \in 1..Len(QuoteOutput) : QuoteOutput[i] \in 0..31 => QuoteOutput[i] = 31
    /\ Len(QuoteOutput)
         = Len(TableEscapes(QuoteInput)) + 2
           - 5 * Cardinality({i \in 1..Len(QuoteInput) : QuoteInput[i] = 31})

\* The text of the byte 0x1e is quoted as \u001e.
Control1eEscaped ==
  /\ dom_call.op = "double_quote"
  /\ QuoteInput = <<30>>
  /\ QuoteOutput = <<34, 92, 117, 48, 48, 49, 101, 34>>

(***************************************************************************)
(* The state of Rapid_json_handler between the callbacks of a parse.       *)
(***************************************************************************)
\* The kinds of the containers that the first n events have opened and not
\* closed, the outermost first.
RECURSIVE OpenContainers(_, _)
OpenContainers(tokens, n) ==
  IF n = 0 THEN <<>>
  ELSE IF tokens[n].tok = "StartObject" THEN Append(OpenContainers(tokens, n - 1), "J_OBJECT")
  ELSE IF tokens[n].tok = "StartArray" THEN Append(OpenContainers(tokens, n - 1), "J_ARRAY")
  ELSE IF tokens[n].tok \in {"EndObject", "EndArray"}
  THEN SubSeq(OpenContainers(tokens, n - 1), 1, Len(OpenContainers(tokens, n - 1)) - 1)
  ELSE OpenContainers(tokens, n - 1)

\* The handler has accepted every event so far: no callback has returned
\* false or crashed.
Accepted == reader.status = "parsing" /\ reader.success

Opened == OpenContainers(reader.tokens, reader.pos - 1)

\* The chain of parents from a DOM: every one is allocated, there are n of
\* them, and the last is the root.
RECURSIVE ChainToRoot(_, _, _, _)
ChainToRoot(h, this, n, root) ==
  /\ this # NullPtr
  /\ h[this].live
  /\ IF n = 0 THEN this = root /\ h[this].parent = NullPtr
     ELSE ChainToRoot(h, h[this].parent, n - 1, root)

\* m_depth is the number of open containers, and m_current_element is the
\* innermost of them, a node of the tree of m_dom_as_built at that depth.
HandlerTracksOpen ==
  /\ handler.m_depth = Len(Opened)
  /\ IF Opened = <<>>
     THEN reader.pos > 1 => handler.m_current_element = NullPtr
     ELSE /\ handler.m_current_element # NullPtr
          /\ heap[handler.m_current_element].live
          /\ heap[handler.m_current_element].type = Opened[Len(Opened)]
          /\ ChainToRoot(heap, handler.m_current_element, Len(Opened) - 1,
                         handler.m_dom_as_built)

\* After an event that closed a container the handler expects what the
\* parent of the container expects: a key, an array value, or the end of
\* the text with m_depth 0 when the root was closed.
ClosedRestoresParent ==
  (reader.pos > 1 /\ reader.tokens[reader.pos - 1].tok \in {"EndObject", "EndArray"}) =>
    handler.m_state
      = (IF Opened = <<>> THEN "expect_eof"
         ELSE IF Opened[Len(Opened)] = "J_OBJECT" THEN "expect_object_key"
         ELSE "expect_array_value")
    /\ (Opened = <<>> => handler.m_depth = 0)

\* C25: at every point of a sequence of events that the handler has
\* accepted so far, m_depth is the number of open containers,
\* m_current_element is the innermost open container and a node of the
\* tree of m_dom_as_built, and the close of a container restores the state
\* that its parent expects.
C25_HandlerTracksContainers == Accepted => HandlerTracksOpen /\ ClosedRestoresParent

\* The events of {"a": 1, "a": { have been accepted: the object that the
\* last event opened is the current element and has been deleted.
C25_Witness ==
  /\ Accepted
  /\ reader.input = JObject(<<KeyA, KeyA>>, <<JInt(1), JObject(<<>>, <<>>)>>)
  /\ reader.pos = 6
  /\ handler.m_depth = 2
  /\ handler.m_current_element # NullPtr
  /\ ~heap[handler.m_current_element].live

\* The claim holds of every text that does not repeat a key with an object
\* or an array as the later value.
HandlerTracksUnlessContainerRepeated ==
  (Accepted /\ ~RepeatsKeyWithContainer(reader.input)) =>
    HandlerTracksOpen /\ ClosedRestoresParent

\* The inner object of {"a": {"b": 2}, "b": 1} has been closed: the handler
\* is back in the root and expects a key.
ClosedInnerObject ==
  /\ Accepted
  /\ reader.input = JObject(<<KeyA, KeyB>>, <<JObject(<<KeyB>>, <<JInt(2)>>), JInt(1)>>)
  /\ reader.pos = 7
  /\ handler.m_depth = 1
  /\ handler.m_current_element = handler.m_dom_as_built
  /\ handler.m_state = "expect_object_key"

(***************************************************************************)
(* Json_wrapper::seek_no_ellipsis against Json_dom::seek.                  *)
(***************************************************************************)
\* The hits of left->seek(path, &hits, auto_wrap, only_need_one) on the DOM
\* of the wrapper.
DomHits == Json_dom_seek(SeekRoot, dom_call.path, dom_call.auto_wrap, dom_call.only_need_one)

\* The value of a hit of the wrapper: a hit of a wrapper of a DOM is a node
\* of the DOM, a hit of a wrapper of a binary value a value in the buffer.
HitValue(hit) == IF dom_call.m_is_dom THEN NodeAt(SeekRoot, hit) ELSE BinToDom(Mem, hit)

\* Json_wrapper::seek was called with a path without an ellipsis, so that
\* it called seek_no_ellipsis(path, hits, 0, path.leg_count(), auto_wrap,
\* only_need_one).
SoughtNoEllipsis == dom_call.op = "Json_wrapper::seek" /\ ~contains_ellipsis(dom_call.path)

\* C26: for every path without an ellipsis, every DOM and both values of
\* auto_wrap and of only_need_one, seek_no_ellipsis on a wrapper of the
\* DOM returns values equal to the nodes that Json_dom::seek returns on
\* the DOM, in the same order, and neither result has a location twice.
C26_SeekNoEllipsisAsDomSeek ==
  SoughtNoEllipsis =>
    /\ Len(SeekHits) = Len(DomHits)
    /\ \A i \in 1..Len(SeekHits) : HitValue(SeekHits[i]) = NodeAt(SeekRoot, DomHits[i])
    /\ dom_call.m_is_dom => SeekHits = DomHits /\ NoDuplicates(SeekHits)
    /\ NoDuplicates(DomHits)

\* The seek of $.*[last] with auto-wrap in {"a":[1,{"a":2}],"b":{"a":3}},
\* through a wrapper of the binary value: the hits are {"a":2} and, as the
\* only cell of the wrapped object, {"a":3}.
C26_Witness ==
  /\ SoughtNoEllipsis
  /\ ~dom_call.m_is_dom
  /\ SeekRoot = EllipsisDoc
  /\ dom_call.path = <<MemberWildcardLeg, CellLeg(0, TRUE)>>
  /\ dom_call.auto_wrap
  /\ ~dom_call.only_need_one
  /\ DomHits = <<(<<1, 2>>), <<2>>>>
  /\ Len(SeekHits) = 2
  /\ HitValue(SeekHits[1]) = JObject(<<KeyA>>, <<JInt(2)>>)

\* The same seek through a wrapper of the DOM with only_need_one: the one
\* hit is the first.
SoughtOneInDom ==
  /\ SoughtNoEllipsis
  /\ dom_call.m_is_dom
  /\ SeekRoot = EllipsisDoc
  /\ dom_call.path = <<MemberWildcardLeg, CellLeg(0, TRUE)>>
  /\ dom_call.only_need_one
  /\ SeekHits = <<(<<1, 2>>)>>
  /\ Len(AllHits) = 2

(***************************************************************************)
(* attempt_binary_update: what a call that does not replace leaves alone.  *)
(***************************************************************************)
\* C27: whenever attempt_binary_update reports replaced_path = false, for
\* any of its reasons, the result buffer and the binary value of the
\* wrapper are as they were before the call; replaced_path = true is
\* reported only together with partially_updated = true.
C27_NotReplacedNothingWritten ==
  Updated =>
    /\ ~last.replaced_path => NothingChanged
    /\ last.replaced_path => last.partially_updated

\* A call after one that has filled the result buffer declines for lack of
\* space: the buffer still holds what the call before left in it.
C27_Witness ==
  /\ Updated
  /\ last.before["result"] # <<>>
  /\ Addressed /\ ~Fits
  /\ ~last.partially_updated /\ ~last.replaced_path
  /\ result = last.before["result"]
  /\ m_value = last.m_value_before

\* A call reports replaced_path = false with partially_updated = true: the
\* path finds no parent, and nothing is written.
NotReplacedAsNoParent ==
  /\ Updated
  /\ last.path # <<>>
  /\ ~HasParent
  /\ last.partially_updated /\ ~last.replaced_path
  /\ NothingChanged

(***************************************************************************)
(* The result buffer over a sequence of partial updates and removes.       *)
(***************************************************************************)
\* Json_wrapper::is_binary_backed_by(str): the wrapper holds a binary value
\* and the bytes it reads are those of the buffer.
is_binary_backed_by(this, str) == this.buf = str

\* C28: after any sequence of attempt_binary_update and binary_remove calls
\* on one wrapper that share one result buffer, empty at first, the buffer
\* is either still empty, and no call has changed the document, or it
\* holds the current document and backs the binary value of the wrapper;
\* so is_binary_backed_by(result) holds whenever a call finds the buffer
\* not empty.
C28_ResultBacksWrapper ==
  /\ IF result = <<>>
     THEN /\ is_binary_backed_by(m_value, "field")
          /\ m_value = parse_binary(Mem, "field", Len(field_binary))
     ELSE /\ is_binary_backed_by(m_value, "result")
          /\ m_value = parse_binary(Mem, "result", Len(result))
  /\ (last.op # "none" /\ last.before["result"] # <<>>)
       => is_binary_backed_by(last.m_value_before, "result")

\* The second call of a sequence, an update that writes, found the result
\* buffer filled by a remove: it read the original from the buffer, and the
\* buffer holds the document after it.
C28_Witness ==
  /\ ncalls = 2
  /\ Updated /\ last.replaced_path
  /\ last.before["result"] # <<>>
  /\ last.before["result"] # last.before["field"]
  /\ Len(last.before["result"]) = Len(last.before["field"])
  /\ last.original = "result"
  /\ is_binary_backed_by(m_value, "result")
  /\ result # last.before["result"]
  /\ BinToDom(Mem, m_value) # BinToDom(last.before, last.m_value_before)

\* Calls that change nothing leave the buffer empty and the wrapper on the
\* stored document.
StillEmptyAfterCalls ==
  /\ ncalls = 2
  /\ result = <<>>
  /\ is_binary_backed_by(m_value, "field")

(***************************************************************************)
(* temptable::Table (storage/temptable/src/table.cc).  A row is the tuple  *)
(* of its column values; m_rows is the sequence of the rows, and a pointer *)
(* to a row is its position in m_rows.  An index is on one column; it may  *)
(* be unique (Hash_unique) or allow duplicates; its content is the set of  *)
(* its entries.  An entry points to a row ("The index only contains a      *)
(* pointer to the row inside Table::m_rows", table.cc:232) and stands in   *)
(* the index where the cells it was inserted with put it.  A cursor is the *)
(* entry it stands at.  Whether a lookup meets an entry by the cells the   *)
(* row holds now or by the cells the entry was inserted with is by_row, a  *)
(* choice of every call: Table::update writes the row before it looks the  *)
(* old cells up.                                                           *)
(***************************************************************************)
OK == "OK"

OUT_OF_MEM == "OUT_OF_MEM"

FOUND_DUPP_KEY == "FOUND_DUPP_KEY"

TABLE_CORRUPT == "TABLE_CORRUPT"

Index(column, unique) == [column |-> column, unique |-> unique, entries |-> {}]

Cursor(cells, row) == [cells |-> cells, row |-> row]

\* Indexed_cells{row, index}: the cells of the column of the index.
Indexed_cells(row, index) == row[index.column]

\* The cells an entry of the index is compared by.
entry_cells(index, e, rows, by_row) ==
  IF by_row THEN Indexed_cells(rows[e.row], index) ELSE e.cells

\* index.lookup(indexed_cells, &first, &after_last): the entries from first
\* to after_last; Lookup::FOUND when there is one.
Index_lookup(index, indexed_cells, rows, by_row) ==
  {e \in index.entries : entry_cells(index, e, rows, by_row) = indexed_cells}

\* index->insert(indexed_cells, &insert_position) for the row the cells are
\* of: a unique index rejects cells it holds, and any index may fail for
\* lack of memory (fx.refuse is its number).
Index_insert(index, indexed_cells, row, rows, i, fx) ==
  IF fx.refuse = i + 1
  THEN [ret |-> OUT_OF_MEM, index |-> index, position |-> Cursor(0, 0)]
  ELSE IF index.unique /\ Index_lookup(index, indexed_cells, rows, fx.by_row) # {}
  THEN [ret |-> FOUND_DUPP_KEY, index |-> index, position |-> Cursor(0, 0)]
  ELSE [ret |-> OK,
        index |-> [index EXCEPT !.entries = @ \cup {Cursor(indexed_cells, row)}],
        position |-> Cursor(indexed_cells, row)]

\* index->erase(target).
Index_erase(index, target) == [index EXCEPT !.entries = @ \ {target}]

\* Table::Table: no rows, the indexes of the MySQL table, indexes enabled.
Table(indexes, all_columns_are_fixed_size) ==
  [m_rows |-> <<>>, m_indexes |-> indexes, m_insert_undo |-> <<>>,
   m_indexes_are_enabled |-> TRUE,
   m_all_columns_are_fixed_size |-> all_columns_are_fixed_size]

TableReturn(t, ret, at) == [table |-> t, ret |-> ret, at |-> at]

\* The undo of an insertion is never remembered.
remember_undo_never(t, insert_position) == t

\* Table::insert, lines 135-137: the position is remembered for the undo
\* when the table has more than one index.
remember_undo(t, insert_position) ==
  IF Len(t.m_indexes) > 1
  THEN [t EXCEPT !.m_insert_undo = Append(@, insert_position)]
  ELSE t

\* The loop over the indexes of Table::insert from index i (counted from
\* 0) on, for the new row at the back of m_rows; fx.refuse is the number
\* of the index that fails for lack of memory, or 0.  at is the index the
\* loop left at.
RECURSIVE insert_in_indexes(_, _, _)
insert_in_index(t, i, fx, ins) ==
  IF ins.ret # OK THEN TableReturn(t, ins.ret, i)
  ELSE insert_in_indexes(remember_undo([t EXCEPT !.m_indexes[i + 1] = ins.index],
                                       ins.position),
                         i + 1, fx)

insert_in_indexes(t, i, fx) ==
  IF i >= Len(t.m_indexes) THEN TableReturn(t, OK, i)
  ELSE insert_in_index(t, i, fx,
                       Index_insert(t.m_indexes[i + 1],
                                    Indexed_cells(t.m_rows[Len(t.m_rows)], t.m_indexes[i + 1]),
                                    Len(t.m_rows), t.m_rows, i, fx))

\* The undo loop of Table::insert, from i on.
RECURSIVE undo_insertions(_, _)
undo_insertions(t, i) ==
  IF i >= Len(t.m_insert_undo) THEN t
  ELSE undo_insertions([t EXCEPT !.m_indexes[i + 1] = Index_erase(@, t.m_insert_undo[i + 1])],
                       i + 1)

\* m_rows.deallocate_back().
deallocate_back(t) == [t EXCEPT !.m_rows = SubSeq(@, 1, Len(@) - 1)]

\* Table::insert after the loop over the indexes.
insert_end(r) ==
  IF r.ret # OK
  THEN TableReturn([deallocate_back(undo_insertions(r.table, 0)) EXCEPT !.m_insert_undo = <<>>],
                   r.ret, r.at)
  ELSE TableReturn([r.table EXCEPT !.m_insert_undo = <<>>], r.ret, r.at)

\* Table::insert(mysql_row).  fx tells which of the calls that can fail
\* does: allocate_back, copy_to_own_memory, and the insert into the index
\* number refuse; fx.by_row is how the entries of the indexes are met.
Table_insert(t, mysql_row, fx) ==
  IF fx.allocate THEN TableReturn(t, OUT_OF_MEM, -1)
  ELSE IF ~t.m_all_columns_are_fixed_size /\ fx.copy
  THEN TableReturn(deallocate_back([t EXCEPT !.m_rows = Append(@, mysql_row)]), OUT_OF_MEM, -1)
  ELSE IF ~t.m_indexes_are_enabled
  THEN TableReturn([t EXCEPT !.m_rows = Append(@, mysql_row)], OK, -1)
  ELSE insert_end(insert_in_indexes([t EXCEPT !.m_rows = Append(@, mysql_row)], 0, fx))

\* A reversal erases from none of its indexes.
skip_erase_whole_reversal(reversal, i, max_index) == reversal

\* Table::update, line 244: a reversal does not erase from its last index.
skip_erase(reversal, i, max_index) == reversal /\ i = max_index

\* The loop over the indexes of Table::update from index i on.  at is the
\* value of i when the loop is left.
RECURSIVE update_in_indexes(_, _, _, _, _, _, _, _)
update_insert(t, mysql_row_old, mysql_row_new, target_row, reversal, max_index, i, fx, ins) ==
  IF ins.ret # OK THEN TableReturn(t, ins.ret, i)
  ELSE update_in_indexes([t EXCEPT !.m_indexes[i + 1] = ins.index], mysql_row_old,
                         mysql_row_new, target_row, reversal, max_index, i + 1, fx)

update_erased(t, mysql_row_old, mysql_row_new, target_row, reversal, max_index, i, fx) ==
  update_insert(t, mysql_row_old, mysql_row_new, target_row, reversal, max_index, i, fx,
                Index_insert(t.m_indexes[i + 1],
                             Indexed_cells(t.m_rows[target_row], t.m_indexes[i + 1]),
                             target_row, t.m_rows, i, fx))

\* The entries from first to after_last that point to the target row.
cursors_of_row(found, target_row) == {c \in found : c.row = target_row}

update_found(t, mysql_row_old, mysql_row_new, target_row, reversal, max_index, i, fx, found) ==
  IF found = {} THEN TableReturn(t, TABLE_CORRUPT, i)
  ELSE IF cursors_of_row(found, target_row) = {} THEN TableReturn(t, TABLE_CORRUPT, i)
  ELSE update_erased(
         [t EXCEPT !.m_indexes[i + 1] =
            Index_erase(@, CHOOSE c \in cursors_of_row(found, target_row) : TRUE)],
         mysql_row_old, mysql_row_new, target_row, reversal, max_index, i, fx)

update_in_indexes(t, mysql_row_old, mysql_row_new, target_row, reversal, max_index, i, fx) ==
  IF i > max_index THEN TableReturn(t, OK, i)
  ELSE IF Indexed_cells(mysql_row_old, t.m_indexes[i + 1])
          = Indexed_cells(mysql_row_new, t.m_indexes[i + 1])
  THEN update_in_indexes(t, mysql_row_old, mysql_row_new, target_row, reversal, max_index,
                         i + 1, fx)
  ELSE IF skip_erase(reversal, i, max_index)
  THEN update_erased(t, mysql_row_old, mysql_row_new, target_row, reversal, max_index, i, fx)
  ELSE update_found(t, mysql_row_old, mysql_row_new, target_row, reversal, max_index, i, fx,
                    Index_lookup(t.m_indexes[i + 1],
                                 Indexed_cells(mysql_row_old, t.m_indexes[i + 1]),
                                 t.m_rows, fx.by_row))

\* Table::update(mysql_row_old, mysql_row_new, target_row, reversal,
\* max_index).  fx.copy, fx.refuse and fx.by_row tell, first for this call and
\* then for the reversal it makes, whether copy_to_own_memory fails, which
\* index fails to insert for lack of memory and how the entries are met.  reverted is the result of the
\* reversal, "none" without one.
TailFx(fx) == [copy |-> Tail(fx.copy), refuse |-> Tail(fx.refuse), by_row |-> Tail(fx.by_row)]

RECURSIVE Table_update(_, _, _, _, _, _, _)
update_end(r, mysql_row_old, mysql_row_new, target_row, reversal, fx) ==
  IF r.ret = OK THEN [table |-> r.table, ret |-> OK, at |-> r.at, forward |-> r.ret, reverted |-> "none"]
  ELSE IF reversal
  THEN [table |-> r.table, ret |-> TABLE_CORRUPT, at |-> r.at, forward |-> r.ret, reverted |-> "none"]
  ELSE [table |-> Table_update(r.table, mysql_row_new, mysql_row_old, target_row, TRUE, r.at,
                               TailFx(fx)).table,
        ret |-> IF Table_update(r.table, mysql_row_new, mysql_row_old, target_row, TRUE,
                                r.at, TailFx(fx)).ret # OK
                THEN TABLE_CORRUPT ELSE r.ret,
        at |-> r.at,
        forward |-> r.ret,
        reverted |-> Table_update(r.table, mysql_row_new, mysql_row_old, target_row, TRUE,
                                  r.at, TailFx(fx)).ret]

Table_update(t, mysql_row_old, mysql_row_new, target_row, reversal, max_index, fx) ==
  IF ~t.m_all_columns_are_fixed_size /\ fx.copy[1]
  THEN [table |-> [t EXCEPT !.m_rows[target_row] = mysql_row_old], ret |-> OUT_OF_MEM,
        at |-> -1, forward |-> OUT_OF_MEM, reverted |-> "none"]
  ELSE IF ~t.m_indexes_are_enabled \/ t.m_indexes = <<>>
  THEN [table |-> [t EXCEPT !.m_rows[target_row] = mysql_row_new], ret |-> OK, at |-> -1,
        forward |-> OK, reverted |-> "none"]
  ELSE update_end(
         update_in_indexes([t EXCEPT !.m_rows[target_row] = mysql_row_new], mysql_row_old,
                           mysql_row_new, target_row, reversal,
                           IF reversal THEN max_index ELSE Len(t.m_indexes) - 1,
                           0, [refuse |-> fx.refuse[1], by_row |-> fx.by_row[1]]),
         mysql_row_old, mysql_row_new, target_row, reversal, fx)

\* The rows of the model: two columns of two values.
TableRows == {<<a, b>> : a \in 0..1, b \in 0..1}

\* The indexes of the tables of the model: none, one, two or three, on
\* the first or the second column, unique ones at every position.
TableIndexes ==
  {<<>>, <<Index(1, TRUE)>>, <<Index(2, FALSE)>>,
   <<Index(1, TRUE), Index(2, TRUE)>>, <<Index(1, FALSE), Index(2, TRUE)>>,
   <<Index(1, TRUE), Index(2, FALSE), Index(2, TRUE)>>,
   <<Index(1, FALSE), Index(2, FALSE), Index(1, TRUE)>>,
   <<Index(2, TRUE), Index(1, TRUE), Index(1, FALSE)>>}

InitTable ==
  /\ NoUpdate
  /\ heap = <<>>
  /\ handler = NoHandler
  /\ reader = NoReader
  /\ \E indexes \in TableIndexes, all_columns_are_fixed_size \in BOOLEAN :
       dom_call = [NoDomCall EXCEPT !.table = Table(indexes, all_columns_are_fixed_size),
                                    !.ret = "none"]

\* A call can be made: the calls so far were made with the old row that
\* the target row held, and none has reported the table corrupt.
TableCallable ==
  /\ dom_call.calls < MaxTableOps
  /\ dom_call.ret # TABLE_CORRUPT
  /\ dom_call.op # "none" => dom_call.out.old_matches

TableCalled(op, mysql_row_old, mysql_row_new, target_row, fx, r) ==
  /\ dom_call' = [dom_call EXCEPT
                    !.op = op, !.calls = @ + 1, !.before = dom_call.table,
                    !.table = r.table, !.ret = r.ret, !.left = mysql_row_new,
                    !.right = target_row,
                    !.out = [at |-> r.at, forward |-> r.forward, reverted |-> r.reverted,
                             old_matches |-> target_row = 0
                                             \/ dom_call.table.m_rows[target_row] = mysql_row_old]]
  /\ UNCHANGED <<updVars, heap, handler, reader>>

\* table.insert(mysql_row).
TableInsert ==
  /\ TableCallable
  /\ Len(dom_call.table.m_rows) < MaxRows
  /\ \E mysql_row \in TableRows, allocate \in BOOLEAN,
        copy \in {b \in BOOLEAN : ~b \/ ~dom_call.table.m_all_columns_are_fixed_size},
        refuse \in 0..Len(dom_call.table.m_indexes) :
     \E fx \in {[allocate |-> allocate, copy |-> copy, refuse |-> refuse, by_row |-> TRUE]} :
     \E r \in {Table_insert(dom_call.table, mysql_row, fx)} :
       TableCalled("insert", <<>>, mysql_row, 0, fx,
                   [table |-> r.table, ret |-> r.ret, at |-> r.at, forward |-> r.ret,
                    reverted |-> "none"])

\* What a caller holds for the old contents of a row: the contents, or
\* something else in the first column.
OldRows(row) == {row, <<1 - row[1], row[2]>>}

\* table.update(mysql_row_old, mysql_row_new, target_row, false, 0).
TableUpdate ==
  /\ TableCallable
  /\ \E target_row \in 1..Len(dom_call.table.m_rows),
        mysql_row_new \in TableRows,
        copy \in {<<FALSE, FALSE>>, <<TRUE, FALSE>>, <<FALSE, TRUE>>},
        refuse \in (0..Len(dom_call.table.m_indexes)) \X (0..Len(dom_call.table.m_indexes)),
        by_row \in BOOLEAN \X BOOLEAN :
     /\ dom_call.table.m_all_columns_are_fixed_size => copy = <<FALSE, FALSE>>
     /\ \E fx \in {[copy |-> copy, refuse |-> refuse, by_row |-> by_row]},
           mysql_row_old \in OldRows(dom_call.table.m_rows[target_row]) :
          TableCalled("update", mysql_row_old, mysql_row_new, target_row, fx,
                      Table_update(dom_call.table, mysql_row_old, mysql_row_new, target_row,
                                   FALSE, 0, fx))

NextTable == TableInsert \/ TableUpdate

SpecTable == InitTable /\ [][NextTable]_vars

\* C29: when Table::insert fails because the insert into one of the
\* indexes returns a result other than OK, the new row has been removed
\* from the rows and every entry the call added to an index has been
\* erased: the rows and the content of every index are as before the call,
\* for any number of indexes and any position of the failing index.
\* m_insert_undo is empty when a call is entered and when it returns.
C29_InsertFailureUndone ==
  /\ dom_call.table.m_insert_undo = <<>>
  /\ (dom_call.op = "insert" /\ dom_call.ret # OK /\ dom_call.out.at >= 0) =>
       /\ dom_call.table.m_rows = dom_call.before.m_rows
       /\ \A i \in 1..Len(dom_call.table.m_indexes) :
            dom_call.table.m_indexes[i].entries = dom_call.before.m_indexes[i].entries

\* An insert into a table of two rows failed at the last of three indexes,
\* which is unique and held the cells of the new row; the first two
\* indexes had taken the new entry.
C29_Witness ==
  /\ dom_call.op = "insert"
  /\ dom_call.ret = FOUND_DUPP_KEY
  /\ Len(dom_call.table.m_indexes) = 3
  /\ dom_call.out.at = 2
  /\ Len(dom_call.before.m_rows) = 2
  /\ dom_call.table = dom_call.before
  /\ \A i \in 1..3 : Cardinality(dom_call.table.m_indexes[i].entries) = 2

\* An insert that returns OK has added the row and one entry to every
\* index, and changed nothing else.
InsertAdds ==
  (dom_call.op = "insert" /\ dom_call.ret = OK) =>
    /\ dom_call.table.m_rows = Append(dom_call.before.m_rows, dom_call.left)
    /\ \A i \in 1..Len(dom_call.table.m_indexes) :
         dom_call.table.m_indexes[i].entries
           = dom_call.before.m_indexes[i].entries
             \cup {Cursor(dom_call.left[dom_call.table.m_indexes[i].column],
                          Len(dom_call.table.m_rows))}

\* Every insert that fails, whatever fails, leaves the table as it was.
InsertFailureLeavesTable ==
  (dom_call.op = "insert" /\ dom_call.ret # OK) => dom_call.table = dom_call.before

\* Every row has its entry in every index, and an index has no other.
TableConsistent ==
  (dom_call.op = "none" \/ dom_call.out.old_matches) /\ dom_call.ret # TABLE_CORRUPT =>
    \A i \in 1..Len(dom_call.table.m_indexes) :
      dom_call.table.m_indexes[i].entries
        = {Cursor(dom_call.table.m_rows[row][dom_call.table.m_indexes[i].column], row) :
             row \in 1..Len(dom_call.table.m_rows)}

\* The rows and the entries of every index are those before the call.
TableRestored ==
  /\ dom_call.table.m_rows = dom_call.before.m_rows
  /\ \A i \in 1..Len(dom_call.table.m_indexes) :
       dom_call.table.m_indexes[i].entries = dom_call.before.m_indexes[i].entries

\* The loop over the indexes of the call was left because an index
\* rejected the new entry.
InsertRejected == dom_call.out.at >= 0 /\ dom_call.out.forward \in {FOUND_DUPP_KEY, OUT_OF_MEM}

\* C30: when Table::update, called for the old contents of the target row
\* with reversal = false, fails at an index that rejects the new entry, the
\* reversal restores the table: a call that returns neither OK nor
\* TABLE_CORRUPT leaves the old contents in the target row and in every
\* index the entries it held before the call, and after a reversal
\* that returned OK the call returns the result of the rejected insert.  A
\* reversal that fails, and an old entry that is missing, make the call
\* return TABLE_CORRUPT.
C30_UpdateFailureReverted ==
  dom_call.op = "update" =>
    /\ (dom_call.out.old_matches /\ dom_call.ret \notin {OK, TABLE_CORRUPT}) => TableRestored
    /\ (dom_call.out.old_matches /\ InsertRejected /\ dom_call.out.reverted = OK) =>
         dom_call.ret = dom_call.out.forward
    /\ (InsertRejected /\ dom_call.out.reverted # OK) => dom_call.ret = TABLE_CORRUPT
    /\ dom_call.out.forward = TABLE_CORRUPT => dom_call.ret = TABLE_CORRUPT

\* An update of the first of two rows changed both columns: the first
\* index took the new entry, the second, unique, rejected it as a
\* duplicate of the second row, and the reversal put the old entry back
\* into the first index.
C30_Witness ==
  /\ dom_call.op = "update"
  /\ dom_call.out.old_matches
  /\ Len(dom_call.table.m_indexes) >= 2
  /\ dom_call.out.at = 1
  /\ dom_call.out.forward = FOUND_DUPP_KEY
  /\ dom_call.out.reverted = OK
  /\ dom_call.ret = FOUND_DUPP_KEY
  /\ Indexed_cells(dom_call.left, dom_call.table.m_indexes[1])
       # Indexed_cells(dom_call.before.m_rows[dom_call.right], dom_call.table.m_indexes[1])
  /\ TableRestored

\* The reversal was refused too: the table is reported corrupt, and is.
ReversalRefused ==
  /\ dom_call.op = "update"
  /\ dom_call.out.old_matches
  /\ dom_call.out.forward = FOUND_DUPP_KEY
  /\ dom_call.out.reverted = OUT_OF_MEM
  /\ dom_call.ret = TABLE_CORRUPT
  /\ ~TableRestored

\* The caller's old row is not what the target row held: its entry is not
\* found.
MissingOldEntry ==
  /\ dom_call.op = "update"
  /\ ~dom_call.out.old_matches
  /\ dom_call.out.forward = TABLE_CORRUPT
  /\ dom_call.ret = TABLE_CORRUPT

\* The old entry is not found although the caller's old row is what the
\* target row held: the row is written before the lookup, and the entry is
\* met by the cells of its row.
OldEntryNotFoundByRow ==
  /\ dom_call.op = "update"
  /\ dom_call.out.old_matches
  /\ dom_call.out.forward = TABLE_CORRUPT
  /\ dom_call.before.m_rows[dom_call.right] # dom_call.left

\* An update that returns OK has written the row, and every index holds
\* one entry for every row.
UpdateDone ==
  /\ dom_call.op = "update"
  /\ dom_call.ret = OK
  /\ Len(dom_call.table.m_indexes) = 3
  /\ dom_call.table.m_rows[dom_call.right] = dom_call.left
  /\ dom_call.before.m_rows[dom_call.right] # dom_call.left
  /\ \A i \in 1..3 : dom_call.table.m_indexes[i].entries # dom_call.before.m_indexes[i].entries
=============================================================================
